---- MODULE Spec2Model ----
(***************************************************************************)
(* A model of the jsonnet-debugger front ends.  The DAP bridge             *)
(* (JsonnetDebugSession): the read loop of handleConnection / dapStdin,    *)
(* the per-request handler goroutines spawned by handleRequest, the output *)
(* writer sendFromQueue behind the unbuffered channel sendQueue, and the   *)
(* event multiplexer dispatchEvents.  The terminal front end               *)
(* (ReplDebugger): the event loop of Run and the prompt loop of repl.      *)
(* The jsonnet evaluation engine (jsonnet.Debugger) is an external         *)
(* library; it is modelled from its interface as a black box.              *)
(***************************************************************************)
EXTENDS Integers, Sequences, FiniteSets, TLC

VARIABLES
    argv,        \* os.Args[1:], each argument a sequence of its characters
    apc,         \* position of main: "start" before processArgs, "done" after it
    aout,        \* what processArgs returned, or how it ended instead of returning
    mode,        \* "tcp" (handleConnection), "stdin" (dapStdin) or "repl" (ReplDebugger.Run),
                 \* "none" while main has started none of them
    peers,       \* the other connections dapServer has accepted and is serving
    peersGone,   \* the other connections closed since: their dispatchEvents live on
    proc,        \* the process: "running", "fatal" (log.Fatal), "panic", "returned" (main
                 \* returned), "exit" (os.Exit in main)
    fatalCause,  \* what ended the process abnormally: "none", "decode", "transport", "unrouted",
                 \* "sendOnClosed", "nilSource", "promptAborted", "indexOutOfRange", and "peerFatal",
                 \* "peerPanic" when another connection's session ended it
    mpc,         \* position of the session's read loop and shutdown sequence
    reqs,        \* the requests read so far, in read order (handler h serves reqs[h])
    hpc,         \* position of each handler goroutine
    hresp,       \* the response each handler has built and not yet sent
    hidx,        \* loop index of onSetBreakpointsRequest
    hcalls,      \* number of engine calls each handler has made (history)
    sendWg,      \* the sync.WaitGroup counter
    stopDebug,   \* TRUE once close(stopDebug) ran
    queueClosed, \* TRUE once close(sendQueue) ran
    connClosed,  \* TRUE once the transport is closed
    wpc,         \* position of sendFromQueue: "recv", "write", "flush", "exit"
    wmsg,        \* the message sendFromQueue received and is writing
    buf,         \* the bufio.Writer's buffer: written, not yet flushed
    transport,   \* the messages flushed to the transport, in order
    enqueued,    \* the messages whose send completed, in order (history)
    epc,         \* position of dispatchEvents: "recv", "send"
    e,           \* dispatchEvents' message variable (declared outside its loop)
    current,     \* ds.current: the node of the last Stop event, 0 for nil
    events,      \* the engine's event channel
    emitted,     \* the events the engine has emitted, in order (history)
    engRunning,  \* evaluations launched and running
    engStopped,  \* evaluations suspended, waiting for a continuation
    breakpoints, \* the engine's active breakpoints (lines of the one file)
    launchCalls, \* number of calls of the engine's Launch (history)
    setCalls,    \* the arguments of every call of the engine's SetBreakpoint (history)
    rpc,         \* position of the terminal front end: "off", "prompt", "call", "events", "done"
    rcur,        \* repl's parameter current: the node of the last Stop event, 0 for nil
    rlast,       \* repl's parameter lastVal, "" for nil
    rerr,        \* repl's parameter jerr, "" for nil
    rinputs,     \* the lines read at the prompt, in order (history)
    rcalls,      \* the engine calls the prompt loop has made, in order (history)
    rseen,       \* number of events Run has received (history)
    rout         \* what the terminal front end has printed, in order (history)

mainVars == <<argv, apc, aout, mode, peers, peersGone>>
replVars == <<rpc, rcur, rlast, rerr, rinputs, rcalls, rseen, rout>>
sessionVars == <<mainVars, proc, fatalCause, mpc, reqs, hpc, hresp, hidx, hcalls, sendWg,
                 stopDebug, queueClosed, connClosed, replVars>>
writerVars == <<wpc, wmsg, buf, transport, enqueued>>
eventVars == <<epc, e, current>>
engineVars == <<events, emitted, engRunning, engStopped, breakpoints, launchCalls, setCalls>>
vars == <<sessionVars, writerVars, eventVars, engineVars>>

\* ------------------------------------------------------------------ bounds

MaxReq == 2       \* requests the client sends on one connection
MaxEvents == 2    \* events the evaluations emit
MaxCmds == 3      \* lines the user enters at the prompt
MaxArgs == 3      \* arguments on the command line
MaxPeers == 1     \* other connections the DAP server accepts in a run

\* ------------------------------------------------------------------ messages

ErrorId == 12345

NilMsg ==
    [type |-> "nil", name |-> "", request_seq |-> 0, success |-> FALSE,
     message |-> "", format |-> <<>>, id |-> 0, reason |-> "", text |-> "",
     bps |-> <<>>, frames |-> <<>>, total |-> 0,
     variables |-> <<>>, by |-> 0]

newEvent(event) ==
    [type |-> "event", name |-> event, request_seq |-> 0, success |-> FALSE,
     message |-> "", format |-> <<>>, id |-> 0, reason |-> "", text |-> "",
     bps |-> <<>>, frames |-> <<>>, total |-> 0,
     variables |-> <<>>, by |-> 0]

\* newResponse with Seq and RequestSeq confused.
newResponseSeqConfused(requestSeq, command) ==
    [type |-> "response", name |-> command, request_seq |-> 0, success |-> TRUE,
     message |-> "", format |-> <<>>, id |-> 0, reason |-> "", text |-> "",
     bps |-> <<>>, frames |-> <<>>, total |-> 0,
     variables |-> <<>>, by |-> 0]

newResponse(requestSeq, command) ==
    [type |-> "response", name |-> command, request_seq |-> requestSeq, success |-> TRUE,
     message |-> "", format |-> <<>>, id |-> 0, reason |-> "", text |-> "",
     bps |-> <<>>, frames |-> <<>>, total |-> 0,
     variables |-> <<>>, by |-> 0]

newErrorResponse(requestSeq, command, message) ==
    [newResponse(requestSeq, command) EXCEPT
        !.success = FALSE, !.message = "unsupported", !.format = message, !.id = ErrorId]

\* ------------------------------------------------------------------ dispatch table

OkCommands == {"disconnect", "setExceptionBreakpoints", "scopes", "threads"}

ControlCommands == {"continue", "next", "stepIn"}

UnsupportedText(command) ==
    CASE command = "attach" -> "AttachRequest is not yet supported"
      [] command = "terminate" -> "TerminateRequest is not yet supported"
      [] command = "restart" -> "RestartRequest is not yet supported"
      [] command = "setFunctionBreakpoints" -> "SetFunctionBreakpointsRequest is not yet supported"
      [] command = "configurationDone" -> "ConfigurationDoneRequest is not yet supported"
      [] command = "stepOut" -> "StepOutRequest is not yet supported"
      [] command = "stepBack" -> "StepBackRequest is not yet supported"
      [] command = "reverseContinue" -> "ReverseContinueRequest is not yet supported"
      [] command = "restartFrame" -> "RestartFrameRequest is not yet supported"
      [] command = "goto" -> "GotoRequest is not yet supported"
      [] command = "pause" -> "PauseRequest is not yet supported"
      [] command = "setVariable" -> "setVariableRequest is not yet supported"
      [] command = "setExpression" -> "SetExpressionRequest is not yet supported"
      [] command = "source" -> "SourceRequest is not yet supported"
      [] command = "terminateThreads" -> "TerminateRequest is not yet supported"
      [] command = "stepInTargets" -> "StepInTargetRequest is not yet supported"
      [] command = "gotoTargets" -> "GotoTargetRequest is not yet supported"
      [] command = "completions" -> "CompletionRequest is not yet supported"
      [] command = "exceptionInfo" -> "ExceptionRequest is not yet supported"
      [] command = "loadedSources" -> "LoadedRequest is not yet supported"
      [] command = "dataBreakpointInfo" -> "DataBreakpointInfoRequest is not yet supported"
      [] command = "setDataBreakpoints" -> "SetDataBreakpointsRequest is not yet supported"
      [] command = "readMemory" -> "ReadMemoryRequest is not yet supported"
      [] command = "disassemble" -> "DisassembleRequest is not yet supported"
      [] command = "cancel" -> "CancelRequest is not yet supported"
      [] command = "breakpointLocations" -> "BreakpointLocationsRequest is not yet supported"
      [] OTHER -> ""

UnsupportedCommands ==
    {"attach", "terminate", "restart", "setFunctionBreakpoints", "configurationDone",
     "stepOut", "stepBack", "reverseContinue", "restartFrame", "goto", "pause",
     "setVariable", "setExpression", "source", "terminateThreads", "stepInTargets",
     "gotoTargets", "completions", "exceptionInfo", "loadedSources",
     "dataBreakpointInfo", "setDataBreakpoints", "readMemory", "disassemble", "cancel",
     "breakpointLocations"}

\* The request kinds dispatchRequest has a case for.
RoutedCommands ==
    {"initialize", "launch", "setBreakpoints", "evaluate", "stackTrace", "variables"}
        \cup OkCommands \cup ControlCommands \cup UnsupportedCommands


\* ------------------------------------------------------------------ inputs

Files == {"a.jsonnet"}          \* the files that exist; any other program fails to open

ValidLines == {1, 2}            \* the lines the engine accepts a breakpoint on

NoRequest ==
    [seq |-> 0, cmd |-> "", argsOk |-> TRUE, program |-> "", path |-> "",
     breakpoints |-> <<>>, expr |-> "", source |-> TRUE]

\* The Breakpoints arguments of a setBreakpoints request: a dap.SourceBreakpoint
\* has a line and a column, the column 0 when the client gave none.
SourceBreakpoints ==
    {<<[line |-> 1, column |-> 0]>>,
     <<[line |-> 2, column |-> 5], [line |-> 3, column |-> 0]>>}

\* The requests the client draws from, with sequence number s: one or more of
\* every handler shape.
ClientRequests(s) ==
    {[NoRequest EXCEPT !.seq = s, !.cmd = c] :
        c \in {"initialize", "continue", "next", "stepIn", "threads", "setExpression",
               "stackTrace", "variables"}}
    \cup {[NoRequest EXCEPT !.seq = s, !.cmd = "source", !.source = present] :
        present \in BOOLEAN}
    \cup {[NoRequest EXCEPT !.seq = s, !.cmd = "launch", !.argsOk = a[1], !.program = a[2]] :
        a \in {<<TRUE, "a.jsonnet">>, <<TRUE, "missing.jsonnet">>, <<FALSE, "">>}}
    \cup {[NoRequest EXCEPT !.seq = s, !.cmd = "setBreakpoints", !.path = "a.jsonnet",
                             !.breakpoints = b] : b \in SourceBreakpoints}
    \cup {[NoRequest EXCEPT !.seq = s, !.cmd = "evaluate", !.expr = "x"]}

\* Messages go-dap decodes that dispatchRequest has no case for: a request kind
\* such as modules, or a response or event sent by the client.
UnroutedMessages(s) ==
    {[NoRequest EXCEPT !.seq = s, !.cmd = "modules"]}

\* The client numbers its messages 1, 2, 3, ...
NextSeq == Len(reqs) + 1

StopReasons == {"breakpoint", "step", "exception"}

\* os.ReadFile's error for a file that does not exist.
OpenError(program) == <<"open ", program, ": no such file or directory">>

\* ------------------------------------------------------------------ command line

\* The arguments of the model's command lines, each a sequence of characters:
\* the options, two options in one argument, an option main does not know,
\* a long option, the empty string, the bare dash, two file names and a log
\* level.
ArgStrings ==
    {<<"-", "h">>, <<"-", "v">>, <<"-", "e">>, <<"-", "s">>, <<"-", "-">>, <<"-", "J">>,
     <<"-", "d">>, <<"-", "l">>, <<"-", "e", "d">>, <<"-", "x">>,
     <<"-", "-", "d", "a", "p">>, <<>>, <<"-">>, <<"a">>, <<"b">>,
     <<"d", "e", "b", "u", "g">>}

\* The command lines of at most n arguments.
RECURSIVE ArgLists(_)
ArgLists(n) ==
    IF n = 0 THEN {<<>>}
    ELSE ArgLists(n - 1) \cup
         {Append(l, a) : l \in {m \in ArgLists(n - 1) : Len(m) = n - 1}, a \in ArgStrings}

\* simplifyArgs from argument i on: everything from the first -- on is kept
\* as it is, and an argument -abc before it becomes -a -b -c.
RECURSIVE simplifyArgsFrom(_, _)
simplifyArgsFrom(args, i) ==
    IF i > Len(args) THEN <<>>
    ELSE LET arg == args[i] IN
         IF arg = <<"-", "-">> THEN SubSeq(args, i, Len(args))
         ELSE IF Len(arg) > 2 /\ arg[1] = "-" /\ arg[2] # "-"
              THEN [j \in 1..(Len(arg) - 1) |-> <<"-", arg[j + 1]>>]
                        \o simplifyArgsFrom(args, i + 1)
              ELSE <<arg>> \o simplifyArgsFrom(args, i + 1)

simplifyArgs(args) == simplifyArgsFrom(args, 1)

\* main's config before processArgs.
NewConfig ==
    [inputFile |-> <<>>, filenameIsCode |-> FALSE, dap |-> FALSE, jpath |-> <<>>,
     logLevel |-> "error", stdin |-> FALSE]

\* The names of the five values of processArgsStatus.
Statuses == {"Continue", "SuccessUsage", "FailureUsage", "Success", "Failure"}

\* How a call of processArgs ends: returning a status and an error (<<>> for
\* nil), or not returning, with the status "panic" or "exit" (os.Exit).
Outcome(status, err, config, remainingArgs) ==
    [status |-> status, err |-> err, config |-> config, remainingArgs |-> remainingArgs]

NoOutcome == Outcome("", <<>>, NewConfig, <<>>)

\* The names slog's levels have on the command line.
LogLevels ==
    {<<"d", "e", "b", "u", "g">>, <<"i", "n", "f", "o">>, <<"w", "a", "r", "n">>,
     <<"e", "r", "r", "o", "r">>}

LevelName(level) ==
    CASE level = <<"d", "e", "b", "u", "g">> -> "debug"
      [] level = <<"i", "n", "f", "o">> -> "info"
      [] level = <<"w", "a", "r", "n">> -> "warn"
      [] OTHER -> "error"

\* processArgs after its loop: the DAP modes need no file, the terminal front
\* end needs one, and panics on more than one.
processArgsEnd(config, remainingArgs) ==
    IF config.dap THEN Outcome("Continue", <<>>, config, remainingArgs)
    ELSE IF Len(remainingArgs) = 0
         THEN Outcome("FailureUsage",
                      <<"must give ", IF config.filenameIsCode THEN "code" ELSE "filename">>,
                      config, remainingArgs)
         ELSE IF Len(remainingArgs) # 1
              THEN Outcome("panic", <<"Internal error: expected a single input file.">>,
                           config, remainingArgs)
              ELSE Outcome("Continue", <<>>,
                           [config EXCEPT !.inputFile = remainingArgs[1]], remainingArgs)

\* The loop of processArgs at index i of the simplified arguments.  nextArg
\* ends the process when an option that takes a value is the last argument.
RECURSIVE processArgsLoop(_, _, _, _)
processArgsLoop(args, i, config, remainingArgs) ==
    IF i > Len(args) THEN processArgsEnd(config, remainingArgs)
    ELSE LET arg == args[i] IN
    CASE arg \in {<<"-", "h">>, <<"-", "-", "h", "e", "l", "p">>} ->
            Outcome("SuccessUsage", <<>>, config, remainingArgs)
      [] arg \in {<<"-", "v">>, <<"-", "-", "v", "e", "r", "s", "i", "o", "n">>} ->
            Outcome("Success", <<>>, config, remainingArgs)
      [] arg \in {<<"-", "e">>, <<"-", "-", "e", "x", "e", "c">>} ->
            processArgsLoop(args, i + 1, [config EXCEPT !.filenameIsCode = TRUE], remainingArgs)
      [] arg \in {<<"-", "s">>, <<"-", "-", "s", "t", "d", "i", "n">>} ->
            processArgsLoop(args, i + 1, [config EXCEPT !.stdin = TRUE], remainingArgs)
      [] arg = <<"-", "-">> ->
            processArgsEnd(config, remainingArgs \o SubSeq(args, i + 1, Len(args)))
      [] arg \in {<<"-", "J">>, <<"-", "-", "j", "p", "a", "t", "h">>} ->
            IF i + 1 > Len(args)
            THEN Outcome("exit", <<"Expected another commandline argument.">>,
                         config, remainingArgs)
            ELSE IF Len(args[i + 1]) = 0
                 THEN Outcome("Failure", <<"-J argument was empty string">>,
                              config, remainingArgs)
                 ELSE processArgsLoop(args, i + 2,
                                      [config EXCEPT !.jpath = Append(@, args[i + 1])],
                                      remainingArgs)
      [] arg \in {<<"-", "d">>, <<"-", "-", "d", "a", "p">>} ->
            processArgsLoop(args, i + 1, [config EXCEPT !.dap = TRUE], remainingArgs)
      [] arg \in {<<"-", "l">>, <<"-", "-", "l", "o", "g", "-", "l", "e", "v", "e", "l">>} ->
            IF i + 1 > Len(args)
            THEN Outcome("exit", <<"Expected another commandline argument.">>,
                         config, remainingArgs)
            ELSE IF Len(args[i + 1]) = 0
                 THEN Outcome("Failure", <<"no log level specified">>, config, remainingArgs)
                 ELSE IF args[i + 1] \notin LogLevels
                      THEN Outcome("Failure",
                                   <<"invalid log level ", args[i + 1],
                                     ". Allowed: debug,info,warn,error">>,
                                   config, remainingArgs)
                      ELSE processArgsLoop(args, i + 2,
                                [config EXCEPT !.logLevel = LevelName(args[i + 1])],
                                remainingArgs)
      [] OTHER ->
            IF Len(arg) > 1 /\ arg[1] = "-"
            THEN Outcome("Failure", <<"unrecognized argument: ", arg>>, config, remainingArgs)
            ELSE processArgsLoop(args, i + 1, config, Append(remainingArgs, arg))

processArgs(givenArgs) == processArgsLoop(simplifyArgs(givenArgs), 1, NewConfig, <<>>)

\* readInput for the terminal front end: code given on the command line is
\* not read; the file with the empty name cannot be opened; any other file,
\* and stdin for the name -, is read or fails to be.
ReadInputOutcomes(config) ==
    IF config.filenameIsCode THEN {TRUE}
    ELSE IF config.inputFile = <<>> THEN {FALSE}
         ELSE BOOLEAN

\* The ways the start of what main goes on to can end, TRUE for started:
\* net.Listen of the DAP server succeeds or fails, the DAP session on stdin
\* starts, and the terminal front end starts when safeReadInput has read its
\* input.  On another status than Continue main starts nothing.
StartOutcomes(out) ==
    IF out.status # "Continue" THEN {FALSE}
    ELSE IF out.config.dap
         THEN (IF out.config.stdin THEN {TRUE} ELSE BOOLEAN)
         ELSE ReadInputOutcomes(out.config)

\* What main starts after processArgs: nothing unless the status is Continue
\* and the start succeeds, then the DAP session on stdin, the DAP server, or
\* the terminal front end.
MainMode(out, started) ==
    IF out.status # "Continue" \/ ~started THEN "none"
    ELSE IF out.config.dap
         THEN (IF out.config.stdin THEN "stdin" ELSE "tcp")
         ELSE "repl"

\* How the process stands after main's switch on the status and the start:
\* main returns when dapServer returns its error, and safeReadInput ends the
\* process when the input cannot be read.
MainProc(out, started) ==
    CASE out.status = "Continue" /\ started -> "running"
      [] out.status = "Continue" /\ ~started /\ out.config.dap -> "returned"
      [] out.status = "Continue" /\ ~started /\ ~out.config.dap -> "exit"
      [] out.status = "panic" -> "panic"
      [] OTHER -> "exit"

\* The command lines the sessions of the model are started with: the DAP
\* server, the DAP session on stdin, and the terminal front end on a file.
MainArgs == {<< <<"-", "d">> >>, << <<"-", "d">>, <<"-", "s">> >>, << <<"a">> >>}

\* ------------------------------------------------------------------ initial state

\* The goroutines main's mode starts and where each of them begins.
StartOf(m) ==
    [mpc |-> IF m \in {"tcp", "stdin"} THEN "read" ELSE "off",
     wpc |-> IF m \in {"tcp", "stdin"} THEN "recv" ELSE "off",
     epc |-> IF m \in {"tcp", "stdin"} THEN "recv" ELSE "off",
     rpc |-> IF m = "repl" THEN "prompt" ELSE "off"]

\* The session, the engine and the terminal front end before their first step.
SessionInit ==
    /\ peers = 0
    /\ peersGone = 0
    /\ proc = "running"
    /\ fatalCause = "none"
    /\ mpc = StartOf(mode).mpc
    /\ reqs = <<>>
    /\ hpc = <<>>
    /\ hresp = <<>>
    /\ hidx = <<>>
    /\ hcalls = <<>>
    /\ sendWg = 0
    /\ stopDebug = FALSE
    /\ queueClosed = FALSE
    /\ connClosed = FALSE
    /\ wpc = StartOf(mode).wpc
    /\ wmsg = NilMsg
    /\ buf = <<>>
    /\ transport = <<>>
    /\ enqueued = <<>>
    /\ epc = StartOf(mode).epc
    /\ e = NilMsg
    /\ current = 0
    /\ events = <<>>
    /\ emitted = <<>>
    /\ engRunning = 0
    /\ engStopped = 0
    /\ breakpoints = {}
    /\ launchCalls = 0
    /\ setCalls = {}
    /\ rpc = StartOf(mode).rpc
    /\ rcur = 0
    /\ rlast = ""
    /\ rerr = ""
    /\ rinputs = <<>>
    /\ rcalls = <<>>
    /\ rseen = 0
    /\ rout = <<>>

\* The state in which a session starts: main has processed the command line
\* and started the DAP server, the DAP session on stdin, or the terminal
\* front end.
Init ==
    /\ argv \in MainArgs
    /\ apc = "done"
    /\ aout = processArgs(argv)
    /\ TRUE \in StartOutcomes(aout)
    /\ mode = MainMode(aout, TRUE)
    /\ SessionInit

Handlers == 1..Len(reqs)

\* ------------------------------------------------------------------ send / sendFromQueue

\* ds.sendQueue <- message on the unbuffered channel: completes only when
\* sendFromQueue is at its receive, which takes the message.
send(message) ==
    /\ ~queueClosed
    /\ wpc = "recv"
    /\ wpc' = "write"
    /\ wmsg' = message
    /\ enqueued' = Append(enqueued, message)
    /\ UNCHANGED <<buf, transport>>

\* sendFromQueue without its Flush: the message stays in the buffer.
WriterWriteNoFlush ==
    /\ proc = "running"
    /\ wpc = "write"
    /\ buf' = Append(buf, wmsg)
    /\ wpc' = "recv"
    /\ UNCHANGED <<wmsg, transport, enqueued>>
    /\ UNCHANGED <<sessionVars, eventVars, engineVars>>

\* dap.WriteProtocolMessage(ds.rw.Writer, message): into the bufio buffer.
WriterWrite ==
    /\ proc = "running"
    /\ wpc = "write"
    /\ buf' = Append(buf, wmsg)
    /\ wpc' = "flush"
    /\ UNCHANGED <<wmsg, transport, enqueued>>
    /\ UNCHANGED <<sessionVars, eventVars, engineVars>>

\* A writer that puts what it flushes in front of what is on the transport.
WriterFlushInFront ==
    /\ proc = "running"
    /\ wpc = "flush"
    /\ transport' = IF connClosed THEN transport ELSE buf \o transport
    /\ buf' = <<>>
    /\ wmsg' = NilMsg
    /\ wpc' = "recv"
    /\ UNCHANGED enqueued
    /\ UNCHANGED <<sessionVars, eventVars, engineVars>>

\* ds.rw.Flush(): the buffer reaches the transport, unless the transport is
\* closed, in which case the flush fails (the error is ignored) and the bytes
\* are lost.
WriterFlush ==
    /\ proc = "running"
    /\ wpc = "flush"
    /\ transport' = IF connClosed THEN transport ELSE transport \o buf
    /\ buf' = <<>>
    /\ wmsg' = NilMsg
    /\ wpc' = "recv"
    /\ UNCHANGED enqueued
    /\ UNCHANGED <<sessionVars, eventVars, engineVars>>

\* The range over sendQueue ends once the channel is closed.
WriterExit ==
    /\ proc = "running"
    /\ wpc = "recv"
    /\ queueClosed
    /\ wpc' = "exit"
    /\ UNCHANGED <<wmsg, buf, transport, enqueued>>
    /\ UNCHANGED <<sessionVars, eventVars, engineVars>>

\* ------------------------------------------------------------------ read loop and shutdown

\* handleRequest running the handler itself: the next message is read when
\* the handlers before it have returned.
handleRequestInline(request) ==
    /\ proc = "running"
    /\ mpc = "read"
    /\ Len(reqs) < MaxReq
    /\ sendWg = 0
    /\ reqs' = Append(reqs, request)
    /\ hpc' = Append(hpc, "start")
    /\ hresp' = Append(hresp, NilMsg)
    /\ hidx' = Append(hidx, 1)
    /\ hcalls' = Append(hcalls, 0)
    /\ sendWg' = sendWg + 1
    /\ UNCHANGED <<mainVars, proc, fatalCause, mpc, stopDebug, queueClosed, connClosed, replVars>>
    /\ UNCHANGED <<writerVars, eventVars, engineVars>>

\* handleRequest: a message is read and decoded, the wait group is incremented
\* and a goroutine running dispatchRequest is spawned.
handleRequest(request) ==
    /\ proc = "running"
    /\ mpc = "read"
    /\ Len(reqs) < MaxReq
    /\ reqs' = Append(reqs, request)
    /\ hpc' = Append(hpc, "start")
    /\ hresp' = Append(hresp, NilMsg)
    /\ hidx' = Append(hidx, 1)
    /\ hcalls' = Append(hcalls, 0)
    /\ sendWg' = sendWg + 1
    /\ UNCHANGED <<mainVars, proc, fatalCause, mpc, stopDebug, queueClosed, connClosed, replVars>>
    /\ UNCHANGED <<writerVars, eventVars, engineVars>>

\* handleRequest returns io.EOF: the loop breaks.
ReadEOF ==
    /\ proc = "running"
    /\ mpc = "read"
    /\ mpc' = "closeStop"
    /\ UNCHANGED <<mainVars, proc, fatalCause, reqs, hpc, hresp, hidx, hcalls, sendWg,
                   stopDebug, queueClosed, connClosed, replVars>>
    /\ UNCHANGED <<writerVars, eventVars, engineVars>>

\* log.Print in the place of log.Fatal: the error is logged and nothing ends.
FatalOnlyLogs(cause) ==
    /\ proc' = proc
    /\ fatalCause' = cause
    /\ connClosed' = connClosed

\* log.Fatal / log.Fatalf: the process exits, which closes every descriptor.
Fatal(cause) ==
    /\ proc' = "fatal"
    /\ fatalCause' = cause
    /\ connClosed' = TRUE

\* handleRequest returns an error other than io.EOF: a decode failure
\* ("decode") or a transport error such as a connection reset ("transport").
ReadError(cause) ==
    /\ proc = "running"
    /\ mpc = "read"
    /\ Fatal(cause)
    /\ UNCHANGED <<mainVars, mpc, reqs, hpc, hresp, hidx, hcalls, sendWg, stopDebug, queueClosed, replVars>>
    /\ UNCHANGED <<writerVars, eventVars, engineVars>>

CloseStopDebug ==
    /\ proc = "running"
    /\ mpc = "closeStop"
    /\ stopDebug' = TRUE
    /\ mpc' = "wait"
    /\ UNCHANGED <<mainVars, proc, fatalCause, reqs, hpc, hresp, hidx, hcalls, sendWg,
                   queueClosed, connClosed, replVars>>
    /\ UNCHANGED <<writerVars, eventVars, engineVars>>

\* A Wait that does not wait.
WaitReturnsAtOnce ==
    TRUE

\* debugSession.sendWg.Wait() returns when the counter is zero.
WaitReturns ==
    sendWg = 0

SendWgWait ==
    /\ proc = "running"
    /\ mpc = "wait"
    /\ WaitReturns
    /\ mpc' = "closeQueue"
    /\ UNCHANGED <<mainVars, proc, fatalCause, reqs, hpc, hresp, hidx, hcalls, sendWg,
                   stopDebug, queueClosed, connClosed, replVars>>
    /\ UNCHANGED <<writerVars, eventVars, engineVars>>

CloseSendQueue ==
    /\ proc = "running"
    /\ mpc = "closeQueue"
    /\ queueClosed' = TRUE
    /\ mpc' = "closeConn"
    /\ UNCHANGED <<mainVars, proc, fatalCause, reqs, hpc, hresp, hidx, hcalls, sendWg,
                   stopDebug, connClosed, replVars>>
    /\ UNCHANGED <<writerVars, eventVars, engineVars>>

\* handleConnection: conn.Close() and return; the process lives on.
ConnClose ==
    /\ proc = "running"
    /\ mode = "tcp"
    /\ mpc = "closeConn"
    /\ connClosed' = TRUE
    /\ mpc' = "done"
    /\ UNCHANGED <<mainVars, proc, fatalCause, reqs, hpc, hresp, hidx, hcalls, sendWg,
                   stopDebug, queueClosed, replVars>>
    /\ UNCHANGED <<writerVars, eventVars, engineVars>>

\* dapStdin returns nil to main, which returns: the process exits.
DapStdinReturn ==
    /\ proc = "running"
    /\ mode = "stdin"
    /\ mpc = "closeConn"
    /\ proc' = "returned"
    /\ connClosed' = TRUE
    /\ mpc' = "done"
    /\ UNCHANGED <<mainVars, fatalCause, reqs, hpc, hresp, hidx, hcalls, sendWg,
                   stopDebug, queueClosed, replVars>>
    /\ UNCHANGED <<writerVars, eventVars, engineVars>>


\* ------------------------------------------------------------------ the engine (jsonnet.Debugger)

\* Launch starts an evaluation in a goroutine of its own and returns.
EngineLaunch ==
    /\ launchCalls' = launchCalls + 1
    /\ engRunning' = engRunning + 1
    /\ UNCHANGED <<events, emitted, engStopped, breakpoints, setCalls>>

\* Continue, Step and ContinueUntilAfter hand a continuation to a suspended
\* evaluation; the call blocks until an evaluation is suspended.
EngineResume ==
    /\ engStopped > 0
    /\ engStopped' = engStopped - 1
    /\ engRunning' = engRunning + 1
    /\ UNCHANGED <<events, emitted, breakpoints, launchCalls, setCalls>>

\* SetBreakpoint accepts a location that is a legal breakpoint target.
SetBreakpointOk(file, line, column) ==
    line \in ValidLines

\* The target SetBreakpoint resolves a legal location to, and the error it
\* returns for any other.
SetBreakpointTarget(file, line, column) == <<file, line, column>>

SetBreakpointError(file, line, column) == <<"no breakpoint location at", file, line>>

\* SetBreakpoint(file, line, column), called by who (a handler, or 0 for the
\* prompt loop) as its k-th breakpoint: a legal location joins the active
\* breakpoints.
EngineSetBreakpoint(who, k, file, line, column) ==
    /\ setCalls' = setCalls \cup
            {[who |-> who, k |-> k, file |-> file, line |-> line, column |-> column]}
    /\ breakpoints' = IF SetBreakpointOk(file, line, column)
                      THEN breakpoints \cup {SetBreakpointTarget(file, line, column)}
                      ELSE breakpoints

\* ClearBreakpoints(file) drops every breakpoint of the file.
EngineClearBreakpoints(file) ==
    breakpoints' = {b \in breakpoints : b[1] # file}

\* Stop(reason, currentNode, lastEvaluationResult, error): a step stops after
\* an evaluation and carries its result, an exception carries its error.
StopEvent(reason, node) ==
    [kind |-> "stop", reason |-> reason, node |-> node,
     last |-> IF reason = "step" THEN "3" ELSE "",
     output |-> "",
     error |-> IF reason = "exception" THEN "RUNTIME ERROR" ELSE ""]

\* Exit(output, error)
ExitEvent(output, error) ==
    [kind |-> "exit", reason |-> "", node |-> 0, last |-> "", output |-> output,
     error |-> error]

\* How an evaluation ends: with the error it stopped on, or with its output.
ExitResult ==
    IF emitted # <<>> /\ emitted[Len(emitted)].kind = "stop"
                      /\ emitted[Len(emitted)].reason = "exception"
    THEN ExitEvent("", emitted[Len(emitted)].error)
    ELSE ExitEvent("{ }", "")

\* A running evaluation suspends and reports a Stop event.
EngineStop(reason) ==
    /\ proc = "running"
    /\ engRunning > 0
    /\ Len(emitted) < MaxEvents
    /\ events' = Append(events, StopEvent(reason, Len(emitted) + 1))
    /\ emitted' = Append(emitted, StopEvent(reason, Len(emitted) + 1))
    /\ engRunning' = engRunning - 1
    /\ engStopped' = engStopped + 1
    /\ UNCHANGED <<breakpoints, launchCalls, setCalls>>
    /\ UNCHANGED <<sessionVars, writerVars, eventVars>>

\* A running evaluation ends and reports an Exit event.
EngineExit ==
    /\ proc = "running"
    /\ engRunning > 0
    /\ Len(emitted) < MaxEvents
    /\ events' = Append(events, ExitResult)
    /\ emitted' = Append(emitted, ExitResult)
    /\ engRunning' = engRunning - 1
    /\ UNCHANGED <<engStopped, breakpoints, launchCalls, setCalls>>
    /\ UNCHANGED <<sessionVars, writerVars, eventVars>>

\* What the engine's event channel yields in answer to terminate(): spec 6.1
\* names the operation and the two kinds of event and fixes no answer, so the
\* engine either reports an Exit or stays silent.
TerminateOutcomes == {"exit", "none"}

\* terminate(): the evaluation, if any, is over.
EngineTerminate(outcome) ==
    /\ outcome \in TerminateOutcomes
    /\ events' = (IF outcome = "exit" THEN Append(events, ExitEvent("", "")) ELSE events)
    /\ emitted' = (IF outcome = "exit" THEN Append(emitted, ExitEvent("", "")) ELSE emitted)
    /\ engStopped' = 0
    /\ UNCHANGED <<engRunning, breakpoints, launchCalls, setCalls>>

\* The frame the engine reports at depth i of a suspended evaluation: the
\* file's own frame is named by its path, and a frame of a builtin has no
\* location.
EngineFrame(i) ==
    CASE i = 1 -> [name |-> "/src/a.jsonnet", file |-> "a.jsonnet", line |-> 1, column |-> 1]
      [] i % 2 = 0 -> [name |-> "function <f>", file |-> "a.jsonnet", line |-> i, column |-> 3]
      [] OTHER -> [name |-> "builtin", file |-> "", line |-> 0, column |-> 0]

\* stackTrace(): the frames of the suspended evaluation in the engine's
\* order, one more than the node it is stopped at; none when no evaluation is
\* suspended.
EngineStackTrace ==
    IF engStopped > 0 /\ emitted # <<>> /\ emitted[Len(emitted)].kind = "stop"
    THEN [i \in 1..(emitted[Len(emitted)].node + 1) |-> EngineFrame(i)]
    ELSE <<>>

\* listVars(): the names of the variables in scope.
EngineListVars == <<"x">>

\* ------------------------------------------------------------------ request handlers

\* A handler's message, marked with the handler that sends it (history).
Tag(message, h) == [message EXCEPT !.by = h]

\* What one step of handler h leaves alone in the session.
HandlerFrame ==
    UNCHANGED <<mainVars, proc, fatalCause, mpc, reqs, stopDebug, queueClosed, connClosed, replVars>>

AtStart(h, commands) ==
    /\ proc = "running"
    /\ h \in Handlers
    /\ hpc[h] = "start"
    /\ reqs[h].cmd \in commands

\* onInitializeRequest sending its response first.
onInitializeMessagesSwapped(request) ==
    <<newResponse(request.seq, request.cmd), newEvent("initialized")>>

\* onInitializeRequest: the messages it sends, in the order it sends them.
onInitializeMessages(request) ==
    <<newEvent("initialized"), newResponse(request.seq, request.cmd)>>

onInitializeRequest(h) ==
    /\ AtStart(h, {"initialize"})
    /\ send(Tag(onInitializeMessages(reqs[h])[1], h))
    /\ hresp' = [hresp EXCEPT ![h] = onInitializeMessages(reqs[h])[2]]
    /\ hpc' = [hpc EXCEPT ![h] = "sendResp"]
    /\ UNCHANGED <<hidx, hcalls, sendWg>>
    /\ HandlerFrame
    /\ UNCHANGED <<eventVars, engineVars>>

\* onLaunchRequest ignoring os.ReadFile's error.
LaunchOutcomeIgnoresReadError(request) ==
    IF ~request.argsOk THEN "badargs" ELSE "ok"

\* onLaunchRequest up to its send: json.Unmarshal, os.ReadFile, Launch.
LaunchOutcome(request) ==
    IF ~request.argsOk THEN "badargs"
    ELSE IF request.program \notin Files THEN "nofile"
    ELSE "ok"

LaunchResponse(request) ==
    CASE LaunchOutcome(request) = "badargs" ->
            newErrorResponse(request.seq, request.cmd, <<"Invalid launch arguments">>)
      [] LaunchOutcome(request) = "nofile" ->
            newErrorResponse(request.seq, request.cmd,
                             <<"Failed to open file: ">> \o OpenError(request.program))
      [] OTHER -> newResponse(request.seq, request.cmd)

onLaunchRequest(h) ==
    /\ AtStart(h, {"launch"})
    /\ IF LaunchOutcome(reqs[h]) = "ok"
       THEN /\ EngineLaunch
            /\ hcalls' = [hcalls EXCEPT ![h] = @ + 2]   \* Launch, ActiveBreakpoints
       ELSE UNCHANGED <<engineVars, hcalls>>
    /\ hresp' = [hresp EXCEPT ![h] = LaunchResponse(reqs[h])]
    /\ hpc' = [hpc EXCEPT ![h] = "sendResp"]
    /\ UNCHANGED <<hidx, sendWg>>
    /\ HandlerFrame
    /\ UNCHANGED <<writerVars, eventVars>>

\* onSetBreakpointsRequest: the response is allocated with one entry for
\* every breakpoint of the request and the file's breakpoints are cleared.
onSetBreakpointsClear(h) ==
    /\ AtStart(h, {"setBreakpoints"})
    /\ EngineClearBreakpoints(reqs[h].path)
    /\ hresp' = [hresp EXCEPT ![h] =
            [newResponse(reqs[h].seq, reqs[h].cmd) EXCEPT
                !.bps = [i \in 1..Len(reqs[h].breakpoints) |->
                            [line |-> 0, verified |-> FALSE]]]]
    /\ hidx' = [hidx EXCEPT ![h] = 1]
    /\ hcalls' = [hcalls EXCEPT ![h] = @ + 1]
    /\ hpc' = [hpc EXCEPT ![h] = IF Len(reqs[h].breakpoints) = 0 THEN "sendResp" ELSE "setBp"]
    /\ UNCHANGED sendWg
    /\ HandlerFrame
    /\ UNCHANGED <<events, emitted, engRunning, engStopped, launchCalls, setCalls>>
    /\ UNCHANGED <<writerVars, eventVars>>

\* The entry of the response marked verified only for a breakpoint that was
\* not active before.
BreakpointEntryNewOnly(entry, line, ok) ==
    IF ok /\ (\A b \in breakpoints : b[2] # line)
    THEN [line |-> line, verified |-> TRUE] ELSE entry

\* The entry of the response for breakpoint b.Line: on an error the loop logs
\* it and continues, which leaves the entry as allocated.
BreakpointEntry(entry, line, ok) ==
    IF ok THEN [line |-> line, verified |-> TRUE] ELSE entry

\* One iteration of onSetBreakpointsRequest's loop: SetBreakpoint(path, b.Line, -1).
onSetBreakpointsSet(h) ==
    /\ proc = "running"
    /\ h \in Handlers
    /\ hpc[h] = "setBp"
    /\ LET i == hidx[h]
           b == reqs[h].breakpoints[i]
           ok == SetBreakpointOk(reqs[h].path, b.line, -1)
       IN /\ EngineSetBreakpoint(h, i, reqs[h].path, b.line, -1)
          /\ hresp' = [hresp EXCEPT ![h].bps[i] = BreakpointEntry(@, b.line, ok)]
          /\ hidx' = [hidx EXCEPT ![h] = i + 1]
          /\ hpc' = [hpc EXCEPT ![h] =
                IF i = Len(reqs[h].breakpoints) THEN "sendResp" ELSE "setBp"]
    /\ hcalls' = [hcalls EXCEPT ![h] = @ + 1]
    /\ UNCHANGED sendWg
    /\ HandlerFrame
    /\ UNCHANGED <<events, emitted, engRunning, engStopped, launchCalls>>
    /\ UNCHANGED <<writerVars, eventVars>>

\* onContinueRequest, onNextRequest, onStepInRequest: the engine call, which
\* blocks until an evaluation is suspended, and then the response is built.
onControlRequest(h) ==
    /\ AtStart(h, ControlCommands)
    /\ EngineResume
    /\ hcalls' = [hcalls EXCEPT ![h] = @ + 1]
    /\ hresp' = [hresp EXCEPT ![h] = newResponse(reqs[h].seq, reqs[h].cmd)]
    /\ hpc' = [hpc EXCEPT ![h] = "sendResp"]
    /\ UNCHANGED <<hidx, sendWg>>
    /\ HandlerFrame
    /\ UNCHANGED <<writerVars, eventVars>>

\* filepath.Base of a frame name that is a path.
Base(name) == IF name = "/src/a.jsonnet" THEN "a.jsonnet" ELSE name

\* filepath.Abs: the working directory in front of a relative name.
Abs(file) == <<"/cwd", file>>

\* The frame of the response for the i-th frame of the engine's trace: the
\* zero-based index as id, the location when the frame has a file, and the
\* base name when the name is a path.
StackFrame(i, frame) ==
    [id |-> i - 1,
     name |-> Base(frame.name),
     path |-> IF frame.file # "" THEN Abs(frame.file) ELSE <<>>,
     line |-> IF frame.file # "" THEN frame.line ELSE 0,
     column |-> IF frame.file # "" THEN frame.column ELSE 0]

\* The loop of onStackTraceRequest over the first i frames of the trace:
\* each frame goes in front of those before it, and a frame whose file name
\* filepath.Abs cannot resolve is left out.
RECURSIVE StackFrames(_, _, _)
StackFrames(trace, absOk, i) ==
    IF i = 0 THEN <<>>
    ELSE IF trace[i].file # "" /\ ~absOk
         THEN StackFrames(trace, absOk, i - 1)
         ELSE <<StackFrame(i, trace[i])>> \o StackFrames(trace, absOk, i - 1)

\* onStackTraceRequest: the engine's trace, turned round, with its length.
\* filepath.Abs fails when the working directory cannot be determined.
onStackTraceRequest(h) ==
    /\ AtStart(h, {"stackTrace"})
    /\ \E absOk \in BOOLEAN :
        LET frames == StackFrames(EngineStackTrace, absOk, Len(EngineStackTrace)) IN
        hresp' = [hresp EXCEPT ![h] =
            [newResponse(reqs[h].seq, reqs[h].cmd) EXCEPT
                !.frames = frames, !.total = Len(frames)]]
    /\ hcalls' = [hcalls EXCEPT ![h] = @ + 1]
    /\ hpc' = [hpc EXCEPT ![h] = "sendResp"]
    /\ UNCHANGED <<hidx, sendWg>>
    /\ HandlerFrame
    /\ UNCHANGED <<writerVars, eventVars, engineVars>>

\* The variables onVariablesRequest asks the values of: those the engine
\* lists, and self behind them when the engine does not list it.
VariableNames(listed) ==
    IF \E i \in 1..Len(listed) : listed[i] = "self" THEN listed ELSE Append(listed, "self")

\* The entry of the response for a variable: its value, or the empty string
\* when LookupValue answers with an error.
Variable(name, found) ==
    [name |-> name, value |-> IF found THEN "value" ELSE "", evaluateName |-> name]

\* onVariablesRequest: ListVars, then LookupValue for every variable, and the
\* response with one entry for each of them.
onVariablesRequest(h) ==
    /\ AtStart(h, {"variables"})
    /\ LET names == VariableNames(EngineListVars) IN
       /\ \E found \in [1..Len(names) -> BOOLEAN] :
            hresp' = [hresp EXCEPT ![h] =
                [newResponse(reqs[h].seq, reqs[h].cmd) EXCEPT
                    !.variables = [i \in 1..Len(names) |-> Variable(names[i], found[i])]]]
       /\ hcalls' = [hcalls EXCEPT ![h] = @ + 1 + Len(names)]
    /\ hpc' = [hpc EXCEPT ![h] = "sendResp"]
    /\ UNCHANGED <<hidx, sendWg>>
    /\ HandlerFrame
    /\ UNCHANGED <<writerVars, eventVars, engineVars>>

\* onEvaluateRequest: LookupValue answers with a value or with an error.
onEvaluateRequest(h) ==
    /\ AtStart(h, {"evaluate"})
    /\ \E found \in BOOLEAN :
        hresp' = [hresp EXCEPT ![h] =
            IF found
            THEN [newResponse(reqs[h].seq, reqs[h].cmd) EXCEPT !.text = "value"]
            ELSE newErrorResponse(reqs[h].seq, reqs[h].cmd,
                                  <<"Failed to look up variable: ", "unknown variable">>)]
    /\ hcalls' = [hcalls EXCEPT ![h] = @ + 1]
    /\ hpc' = [hpc EXCEPT ![h] = "sendResp"]
    /\ UNCHANGED <<hidx, sendWg>>
    /\ HandlerFrame
    /\ UNCHANGED <<writerVars, eventVars, engineVars>>

\* onDisconnectRequest, onSetExceptionBreakpointsRequest, onScopesRequest,
\* onThreadsRequest: a success response and nothing else.
onOkRequest(h) ==
    /\ AtStart(h, OkCommands)
    /\ send(Tag(newResponse(reqs[h].seq, reqs[h].cmd), h))
    /\ hpc' = [hpc EXCEPT ![h] = "wgDone"]
    /\ UNCHANGED <<hresp, hidx, hcalls, sendWg>>
    /\ HandlerFrame
    /\ UNCHANGED <<eventVars, engineVars>>

\* The handlers that answer "not yet supported" and do nothing else.
onUnsupportedRequest(h) ==
    /\ AtStart(h, UnsupportedCommands \ {"source"})
    /\ send(Tag(newErrorResponse(reqs[h].seq, reqs[h].cmd,
                                 <<UnsupportedText(reqs[h].cmd)>>), h))
    /\ hpc' = [hpc EXCEPT ![h] = "wgDone"]
    /\ UNCHANGED <<hresp, hidx, hcalls, sendWg>>
    /\ HandlerFrame
    /\ UNCHANGED <<eventVars, engineVars>>

\* onSourceRequest reads request.Arguments.Source.SourceReference for its
\* log line, then answers "not yet supported".  Arguments.Source is a pointer
\* that is nil when the request carries no source object: the read panics
\* in the handler's goroutine and the process ends with no response sent.
onSourceRequest(h) ==
    /\ AtStart(h, {"source"})
    /\ IF reqs[h].source
       THEN /\ send(Tag(newErrorResponse(reqs[h].seq, reqs[h].cmd,
                                         <<UnsupportedText(reqs[h].cmd)>>), h))
            /\ hpc' = [hpc EXCEPT ![h] = "wgDone"]
            /\ UNCHANGED <<proc, fatalCause, connClosed>>
       ELSE /\ proc' = "panic"
            /\ fatalCause' = "nilSource"
            /\ connClosed' = TRUE
            /\ hpc' = [hpc EXCEPT ![h] = "panic"]
            /\ UNCHANGED writerVars
    /\ UNCHANGED <<hresp, hidx, hcalls, sendWg>>
    /\ UNCHANGED <<mainVars, mpc, reqs, stopDebug, queueClosed, replVars>>
    /\ UNCHANGED <<eventVars, engineVars>>

\* dispatchRequest's default case: log.Fatalf.
dispatchDefault(h) ==
    /\ proc = "running"
    /\ h \in Handlers
    /\ hpc[h] = "start"
    /\ reqs[h].cmd \notin RoutedCommands
    /\ Fatal("unrouted")
    /\ UNCHANGED <<mainVars, mpc, reqs, hpc, hresp, hidx, hcalls, sendWg, stopDebug, queueClosed, replVars>>
    /\ UNCHANGED <<writerVars, eventVars, engineVars>>

\* The handler's final ds.send(response).
SendResponse(h) ==
    /\ proc = "running"
    /\ h \in Handlers
    /\ hpc[h] = "sendResp"
    /\ send(Tag(hresp[h], h))
    /\ hresp' = [hresp EXCEPT ![h] = NilMsg]
    /\ hpc' = [hpc EXCEPT ![h] = "wgDone"]
    /\ UNCHANGED <<hidx, hcalls, sendWg>>
    /\ HandlerFrame
    /\ UNCHANGED <<eventVars, engineVars>>

\* ds.sendWg.Done() after dispatchRequest returned.
SendWgDone(h) ==
    /\ proc = "running"
    /\ h \in Handlers
    /\ hpc[h] = "wgDone"
    /\ sendWg' = sendWg - 1
    /\ hpc' = [hpc EXCEPT ![h] = "done"]
    /\ UNCHANGED <<hresp, hidx, hcalls>>
    /\ HandlerFrame
    /\ UNCHANGED <<writerVars, eventVars, engineVars>>

\* ------------------------------------------------------------------ dispatchEvents

\* dispatchEvents without the case StopReasonStep.
EventMessageNoStepCase(event, previous) ==
    CASE event.kind = "stop" /\ event.reason = "breakpoint" ->
            [newEvent("stopped") EXCEPT !.reason = "breakpoint"]
      [] event.kind = "stop" /\ event.reason = "exception" ->
            [newEvent("stopped") EXCEPT !.reason = "exception", !.text = event.error]
      [] event.kind = "exit" -> newEvent("terminated")
      [] OTHER -> previous

\* The message dispatchEvents builds for an event; for a Stop event of no
\* known reason the variable keeps the previous message.
EventMessage(event, previous) ==
    CASE event.kind = "stop" /\ event.reason = "breakpoint" ->
            [newEvent("stopped") EXCEPT !.reason = "breakpoint"]
      [] event.kind = "stop" /\ event.reason = "step" ->
            [newEvent("stopped") EXCEPT !.reason = "step"]
      [] event.kind = "stop" /\ event.reason = "exception" ->
            [newEvent("stopped") EXCEPT !.reason = "exception", !.text = event.error]
      [] event.kind = "exit" -> newEvent("terminated")
      [] OTHER -> previous

dispatchEventsReceive ==
    /\ proc = "running"
    /\ epc = "recv"
    /\ events # <<>>
    /\ e' = EventMessage(Head(events), e)
    /\ current' = IF Head(events).kind = "stop" THEN Head(events).node ELSE current
    /\ events' = Tail(events)
    /\ epc' = "send"
    /\ UNCHANGED <<emitted, engRunning, engStopped, breakpoints, launchCalls, setCalls>>
    /\ UNCHANGED <<sessionVars, writerVars>>

dispatchEventsSend ==
    /\ proc = "running"
    /\ epc = "send"
    /\ send(e)
    /\ epc' = "recv"
    /\ UNCHANGED <<e, current>>
    /\ UNCHANGED <<sessionVars, engineVars>>

\* A send on the closed sendQueue panics: the process ends.
dispatchEventsSendOnClosed ==
    /\ proc = "running"
    /\ epc = "send"
    /\ queueClosed
    /\ proc' = "panic"
    /\ fatalCause' = "sendOnClosed"
    /\ connClosed' = TRUE
    /\ UNCHANGED <<mainVars, mpc, reqs, hpc, hresp, hidx, hcalls, sendWg, stopDebug, queueClosed, replVars>>
    /\ UNCHANGED <<writerVars, eventVars, engineVars>>

\* ------------------------------------------------------------------ ReplDebugger

\* What no step of the terminal front end touches: the DAP session.
dapVars == <<mainVars, mpc, reqs, hpc, hresp, hidx, hcalls, sendWg, stopDebug, queueClosed,
             connClosed, writerVars, eventVars>>

\* A line entered at the prompt as strings.Split(input, " ") sees it: the
\* sequence of its parts, each part given as strings.Split(part, ":") sees it.
ReplInputs ==
    {<< <<"b">> >>,
     << <<"b">>, <<"a.jsonnet", "1">> >>,
     << <<"b">>, <<"a.jsonnet", "3">> >>,
     << <<"b">>, <<"a.jsonnet", "1", "5">> >>,
     << <<"b">>, <<"a.jsonnet">> >>,
     << <<"b">>, <<"a.jsonnet", "x">> >>,
     << <<"b">>, <<"a.jsonnet", "1", "x">> >>,
     << <<"n">> >>, << <<"s">> >>, << <<"c">> >>, << <<"q">> >>,
     << <<"l">> >>, << <<"lb">> >>, << <<"p">> >>, << <<"trace">> >>,
     << <<"last">> >>, << <<"vars">> >>,
     << <<"clear">>, <<"a.jsonnet">> >>, << <<"clear">> >>,
     << <<"">> >>, << <<"foo">> >>}

\* parts[0]
Cmd(parts) == parts[1][1]

\* strconv.Atoi on the strings the inputs hold.
Atoi(str) ==
    CASE str = "1" -> [err |-> FALSE, n |-> 1]
      [] str = "2" -> [err |-> FALSE, n |-> 2]
      [] str = "3" -> [err |-> FALSE, n |-> 3]
      [] str = "5" -> [err |-> FALSE, n |-> 5]
      [] OTHER -> [err |-> TRUE, n |-> 0]

\* The cases of repl's switch that end in return, as if the case "s" fell
\* through to the prompt.
ReturnsButStep(cmd) == cmd \in {"n", "next", "q", "c"}

\* The cases of repl's switch that end in return; every other case falls
\* through to r.repl(current, nil, jerr).
Returns(cmd) == cmd \in {"n", "next", "s", "q", "c"}

\* The case "c" calling Launch whether or not an evaluation was launched.
ControlCallAlwaysLaunches(cmd, node) ==
    CASE cmd \in {"n", "next"} -> "ContinueUntilAfter"
      [] cmd = "s" -> "Step"
      [] cmd = "q" -> "Terminate"
      [] cmd = "c" -> "Launch"

\* The case "c" calling Continue whether or not an evaluation was launched.
ControlCallNeverLaunches(cmd, node) ==
    CASE cmd \in {"n", "next"} -> "ContinueUntilAfter"
      [] cmd = "s" -> "Step"
      [] cmd = "q" -> "Terminate"
      [] cmd = "c" -> "Continue"

\* The engine call of a case that ends in return.
ControlCall(cmd, node) ==
    CASE cmd \in {"n", "next"} -> "ContinueUntilAfter"
      [] cmd = "s" -> "Step"
      [] cmd = "q" -> "Terminate"
      [] cmd = "c" /\ node = 0 -> "Launch"
      [] cmd = "c" /\ node # 0 -> "Continue"

\* The case "b": what the argument parses to.
BreakParse(parts) ==
    IF Len(parts) < 2 THEN [outcome |-> "list", file |-> "", line |-> 0, column |-> -1]
    ELSE LET binfo == parts[2] IN
        IF Len(binfo) < 2
        THEN [outcome |-> "nocolon", file |-> "", line |-> 0, column |-> -1]
        ELSE IF Atoi(binfo[2]).err
        THEN [outcome |-> "badline", file |-> "", line |-> 0, column |-> -1]
        ELSE IF Len(binfo) = 3 /\ Atoi(binfo[3]).err
        THEN [outcome |-> "badcolumn", file |-> "", line |-> 0, column |-> -1]
        ELSE [outcome |-> "set", file |-> binfo[1], line |-> Atoi(binfo[2]).n,
              column |-> IF Len(binfo) = 3 THEN Atoi(binfo[3]).n ELSE -1]

\* What the terminal shows for the k-th line: one entry for every fmt.Print*.
Shown(k, what, text) == [k |-> k, what |-> what, text |-> text]

RenderTarget(t) == <<t[1], ToString(t[2]), ToString(t[3])>>

\* r.line.Prompt(p) returns the line the user entered.
Prompt(parts) ==
    /\ proc = "running"
    /\ rpc = "prompt"
    /\ Len(rinputs) < MaxCmds
    /\ rinputs' = Append(rinputs, parts)

\* r.repl(current, nil, jerr) at the end of repl: a new prompt, the last
\* evaluation result dropped.
Reprompt ==
    /\ rpc' = "prompt"
    /\ rlast' = ""
    /\ UNCHANGED <<rcur, rerr>>

\* return: Run goes on to wait for an event.
ReturnToRun ==
    /\ rpc' = "events"
    /\ UNCHANGED <<rcur, rlast, rerr>>

AfterCase(cmd) == IF Returns(cmd) THEN ReturnToRun ELSE Reprompt

Call(op) == rcalls' = Append(rcalls, [k |-> Len(rinputs) + 1, op |-> op])

\* r.line.Prompt returns liner.ErrPromptAborted: os.Exit(1).
replPromptAborted ==
    /\ proc = "running"
    /\ rpc = "prompt"
    /\ proc' = "fatal"
    /\ fatalCause' = "promptAborted"
    /\ UNCHANGED <<replVars, engineVars, dapVars>>

\* case "b", "break"
replBreak(parts) ==
    /\ Prompt(parts)
    /\ Cmd(parts) \in {"b", "break"}
    /\ LET k == Len(rinputs) + 1
           parse == BreakParse(parts)
       IN CASE parse.outcome = "list" ->
                /\ Call("ActiveBreakpoints")
                /\ rout' = Append(rout, Shown(k, "breakpoints",
                        <<ToString(Cardinality(breakpoints))>>))
                /\ UNCHANGED <<breakpoints, setCalls>>
            [] parse.outcome = "nocolon" ->
                /\ rout' = Append(rout, Shown(k, "message",
                        <<"Must specify file and line separated by :">>))
                /\ UNCHANGED <<rcalls, breakpoints, setCalls>>
            [] parse.outcome = "badline" ->
                /\ rout' = Append(rout, Shown(k, "message", <<"Invalid line number: ">>))
                /\ UNCHANGED <<rcalls, breakpoints, setCalls>>
            [] parse.outcome = "badcolumn" ->
                /\ rout' = Append(rout, Shown(k, "message", <<"Invalid column number: ">>))
                /\ UNCHANGED <<rcalls, breakpoints, setCalls>>
            [] parse.outcome = "set" ->
                /\ Call("SetBreakpoint")
                /\ EngineSetBreakpoint(0, k, parse.file, parse.line, parse.column)
                /\ rout' = Append(rout,
                        IF SetBreakpointOk(parse.file, parse.line, parse.column)
                        THEN Shown(k, "Adding breakpoint at ", RenderTarget(
                                SetBreakpointTarget(parse.file, parse.line, parse.column)))
                        ELSE Shown(k, "error", RenderTarget(
                                SetBreakpointError(parse.file, parse.line, parse.column))))
    /\ AfterCase(Cmd(parts))
    /\ UNCHANGED <<rseen, proc, fatalCause>>
    /\ UNCHANGED <<events, emitted, engRunning, engStopped, launchCalls>>
    /\ UNCHANGED dapVars

\* case "n", "next"; case "s"; case "c" with a current node: the call of
\* ContinueUntilAfter, Step or Continue is entered.
replControl(parts) ==
    /\ Prompt(parts)
    /\ Cmd(parts) \in {"n", "next", "s", "c"}
    /\ ControlCall(Cmd(parts), rcur) # "Launch"
    /\ Call(ControlCall(Cmd(parts), rcur))
    /\ rpc' = "call"
    /\ UNCHANGED <<rcur, rlast, rerr, rseen, rout, proc, fatalCause>>
    /\ UNCHANGED <<engineVars, dapVars>>

\* The call returns once the suspended evaluation has taken the continuation.
replControlReturn ==
    /\ proc = "running"
    /\ rpc = "call"
    /\ EngineResume
    /\ AfterCase(Cmd(rinputs[Len(rinputs)]))
    /\ UNCHANGED <<rinputs, rcalls, rseen, rout, proc, fatalCause>>
    /\ UNCHANGED dapVars

\* case "c" without a current node: Launch(filename, raw, jpaths).
replLaunch(parts) ==
    /\ Prompt(parts)
    /\ Cmd(parts) = "c"
    /\ ControlCall(Cmd(parts), rcur) = "Launch"
    /\ Call(ControlCall(Cmd(parts), rcur))
    /\ EngineLaunch
    /\ AfterCase(Cmd(parts))
    /\ UNCHANGED <<rseen, rout, proc, fatalCause>>
    /\ UNCHANGED dapVars

\* case "q": Terminate().
replQuit(parts) ==
    /\ Prompt(parts)
    /\ Cmd(parts) = "q"
    /\ Call(ControlCall(Cmd(parts), rcur))
    /\ \E outcome \in TerminateOutcomes : EngineTerminate(outcome)
    /\ AfterCase(Cmd(parts))
    /\ UNCHANGED <<rseen, rout, proc, fatalCause>>
    /\ UNCHANGED dapVars

\* The lines of case "trace", one for each frame of the engine's trace in
\* the order of the range loop: the name, then file:line:column when the
\* frame has a file.
TraceLines(tr) ==
    [i \in 1..Len(tr) |->
        IF tr[i].file # ""
        THEN <<tr[i].name, tr[i].file, tr[i].line, tr[i].column>>
        ELSE <<tr[i].name>>]

\* case "l", "lb", "p", "trace", "last", "vars": what is asked for is shown.
replInspect(parts) ==
    /\ Prompt(parts)
    /\ Cmd(parts) \in {"l", "lb", "lbs", "p", "trace", "last", "vars"}
    /\ LET k == Len(rinputs) + 1 IN
       CASE Cmd(parts) = "l" ->
                /\ rout' = Append(rout, IF rcur # 0
                                        THEN Shown(k, "context", <<ToString(rcur)>>)
                                        ELSE Shown(k, "file", <<"a.jsonnet">>))
                /\ UNCHANGED rcalls
         [] Cmd(parts) \in {"lb", "lbs"} ->
                /\ Call("BreakpointLocations")
                /\ rout' = Append(rout, Shown(k, "locations", <<>>))
         [] Cmd(parts) = "p" ->
                /\ Call("LookupValue")
                /\ \E found \in BOOLEAN :
                    rout' = Append(rout, IF found THEN Shown(k, "value", <<"value">>)
                                         ELSE Shown(k, "error", <<"unknown variable">>))
         [] Cmd(parts) = "trace" ->
                /\ Call("StackTrace")
                /\ rout' = Append(rout, Shown(k, "trace", TraceLines(EngineStackTrace)))
         [] Cmd(parts) = "last" ->
                /\ rout' = IF rlast # ""
                           THEN Append(rout, Shown(k, "Last evaluation: ", <<rlast>>))
                           ELSE rout
                /\ UNCHANGED rcalls
         [] Cmd(parts) = "vars" ->
                /\ Call("ListVars")
                /\ rout' = Append(rout, Shown(k, "Variables:", EngineListVars))
    /\ AfterCase(Cmd(parts))
    /\ UNCHANGED <<rseen, proc, fatalCause>>
    /\ UNCHANGED <<engineVars, dapVars>>

\* case "clear": ClearBreakpoints(parts[1]); without an argument parts[1] is
\* out of range and the goroutine panics.
replClear(parts) ==
    /\ Prompt(parts)
    /\ Cmd(parts) = "clear"
    /\ IF Len(parts) < 2
       THEN /\ proc' = "panic"
            /\ fatalCause' = "indexOutOfRange"
            /\ UNCHANGED <<rpc, rcur, rlast, rerr, rcalls, breakpoints>>
       ELSE /\ Call("ClearBreakpoints")
            /\ EngineClearBreakpoints(parts[2][1])
            /\ AfterCase(Cmd(parts))
            /\ UNCHANGED <<proc, fatalCause>>
    /\ UNCHANGED <<rseen, rout>>
    /\ UNCHANGED <<events, emitted, engRunning, engStopped, launchCalls, setCalls>>
    /\ UNCHANGED dapVars

\* case "" and default
replOther(parts) ==
    /\ Prompt(parts)
    /\ Cmd(parts) \notin {"b", "break", "n", "next", "s", "l", "lb", "lbs", "p", "trace",
                          "last", "vars", "q", "clear", "c"}
    /\ rout' = IF Cmd(parts) = "" THEN rout
               ELSE Append(rout, Shown(Len(rinputs) + 1, "Unknonw command: ", parts[1]))
    /\ AfterCase(Cmd(parts))
    /\ UNCHANGED <<rcalls, rseen, proc, fatalCause>>
    /\ UNCHANGED <<engineVars, dapVars>>

\* What Run shows for a Stop event before it prompts.
StopShown(k, event) ==
    CASE event.reason = "breakpoint" ->
            <<Shown(k, "Hit breakpoint: ", <<>>), Shown(k, "context", <<ToString(event.node)>>)>>
      [] event.reason = "step" ->
            <<Shown(k, "context", <<ToString(event.node)>>)>>
      [] event.reason = "exception" ->
            <<Shown(k, "Encountered error during evaluation", <<event.error>>),
              Shown(k, "context", <<ToString(event.node)>>)>>
      [] OTHER -> <<>>

\* What Run shows for an Exit event.
ExitShown(k, event) ==
    (IF event.output # "" THEN <<Shown(k, "output", <<event.output>>)>> ELSE <<>>)
    \o (IF event.error # ""
        THEN <<Shown(k, "Error during evaluation: ", <<event.error>>)>> ELSE <<>>)

\* Run receives a Stop event: it shows where the evaluation stopped and
\* calls r.repl(e.Current, e.LastEvaluation, e.Error).
RunStop ==
    /\ proc = "running"
    /\ rpc = "events"
    /\ events # <<>>
    /\ Head(events).kind = "stop"
    /\ events' = Tail(events)
    /\ rseen' = rseen + 1
    /\ rout' = rout \o StopShown(Len(rinputs), Head(events))
    /\ rcur' = Head(events).node
    /\ rlast' = Head(events).last
    /\ rerr' = Head(events).error
    /\ rpc' = "prompt"
    /\ UNCHANGED <<rinputs, rcalls, proc, fatalCause>>
    /\ UNCHANGED <<emitted, engRunning, engStopped, breakpoints, launchCalls, setCalls>>
    /\ UNCHANGED dapVars

\* Run receives an Exit event: it shows the output and the error, leaves the
\* loop and returns to main, which returns.
RunExit ==
    /\ proc = "running"
    /\ rpc = "events"
    /\ events # <<>>
    /\ Head(events).kind = "exit"
    /\ events' = Tail(events)
    /\ rseen' = rseen + 1
    /\ rout' = rout \o ExitShown(Len(rinputs), Head(events))
    /\ rpc' = "done"
    /\ proc' = "returned"
    /\ UNCHANGED <<rcur, rlast, rerr, rinputs, rcalls, fatalCause>>
    /\ UNCHANGED <<emitted, engRunning, engStopped, breakpoints, launchCalls, setCalls>>
    /\ UNCHANGED dapVars

\* ------------------------------------------------------------------ specification

Next ==
    \/ \E r \in ClientRequests(NextSeq) \cup UnroutedMessages(NextSeq) : handleRequest(r)
    \/ ReadEOF
    \/ \E cause \in {"decode", "transport"} : ReadError(cause)
    \/ CloseStopDebug
    \/ SendWgWait
    \/ CloseSendQueue
    \/ ConnClose
    \/ DapStdinReturn
    \/ \E h \in Handlers : onInitializeRequest(h)
    \/ \E h \in Handlers : onLaunchRequest(h)
    \/ \E h \in Handlers : onSetBreakpointsClear(h)
    \/ \E h \in Handlers : onSetBreakpointsSet(h)
    \/ \E h \in Handlers : onControlRequest(h)
    \/ \E h \in Handlers : onEvaluateRequest(h)
    \/ \E h \in Handlers : onStackTraceRequest(h)
    \/ \E h \in Handlers : onVariablesRequest(h)
    \/ \E h \in Handlers : onOkRequest(h)
    \/ \E h \in Handlers : onUnsupportedRequest(h)
    \/ \E h \in Handlers : onSourceRequest(h)
    \/ \E h \in Handlers : dispatchDefault(h)
    \/ \E h \in Handlers : SendResponse(h)
    \/ \E h \in Handlers : SendWgDone(h)
    \/ WriterWrite
    \/ WriterFlush
    \/ WriterExit
    \/ dispatchEventsReceive
    \/ dispatchEventsSend
    \/ dispatchEventsSendOnClosed
    \/ \E reason \in StopReasons : EngineStop(reason)
    \/ EngineExit
    \/ replPromptAborted
    \/ \E parts \in ReplInputs : replBreak(parts)
    \/ \E parts \in ReplInputs : replControl(parts)
    \/ replControlReturn
    \/ \E parts \in ReplInputs : replLaunch(parts)
    \/ \E parts \in ReplInputs : replQuit(parts)
    \/ \E parts \in ReplInputs : replInspect(parts)
    \/ \E parts \in ReplInputs : replClear(parts)
    \/ \E parts \in ReplInputs : replOther(parts)
    \/ RunStop
    \/ RunExit

Spec == Init /\ [][Next]_vars

\* ------------------------------------------------------------------ main: the command line

\* Everything of the session but main's own variables.
sessionRest ==
    <<proc, fatalCause, mpc, reqs, hpc, hresp, hidx, hcalls, sendWg, stopDebug, queueClosed,
      connClosed, replVars>>

\* main up to the start of a mode: processArgs, the switch on its status, and
\* on Continue the DAP server, the DAP session on stdin or the terminal front
\* end, when it starts.  A panic or an os.Exit inside processArgs ends the
\* process there.
mainProcessArgs ==
    /\ proc = "running"
    /\ apc = "start"
    /\ aout' = processArgs(argv)
    /\ apc' = "done"
    /\ \E started \in StartOutcomes(processArgs(argv)) :
        /\ mode' = MainMode(processArgs(argv), started)
        /\ proc' = MainProc(processArgs(argv), started)
    /\ mpc' = StartOf(mode').mpc
    /\ wpc' = StartOf(mode').wpc
    /\ epc' = StartOf(mode').epc
    /\ rpc' = StartOf(mode').rpc
    /\ UNCHANGED <<argv, peers, peersGone, fatalCause, reqs, hpc, hresp, hidx, hcalls, sendWg, stopDebug,
                   queueClosed, connClosed>>
    /\ UNCHANGED <<rcur, rlast, rerr, rinputs, rcalls, rseen, rout>>
    /\ UNCHANGED <<wmsg, buf, transport, enqueued, e, current, engineVars>>

\* The process as the operating system starts it, on any command line of the
\* model.
ArgsInit ==
    /\ argv \in ArgLists(MaxArgs)
    /\ apc = "start"
    /\ aout = NoOutcome
    /\ mode = "none"
    /\ SessionInit

ArgsNext == mainProcessArgs

ArgsSpec == ArgsInit /\ [][ArgsNext]_vars

\* ------------------------------------------------------------------ dapServer: several connections

\* dapServer's loop: a further connection is accepted and a goroutine running
\* handleConnection serves it with a session of its own.
dapServerAccept ==
    /\ proc = "running"
    /\ mode = "tcp"
    /\ peers + peersGone < MaxPeers
    /\ peers' = peers + 1
    /\ UNCHANGED <<argv, apc, aout, mode, peersGone>>
    /\ UNCHANGED <<sessionRest, writerVars, eventVars, engineVars>>

\* handleConnection of another connection reads io.EOF, runs its shutdown
\* sequence, closes its connection and returns.  The dispatchEvents goroutine
\* it started has no way out of its loop and stays.
handleConnectionPeerEOF ==
    /\ proc = "running"
    /\ peers > 0
    /\ peers' = peers - 1
    /\ peersGone' = peersGone + 1
    /\ UNCHANGED <<argv, apc, aout, mode>>
    /\ UNCHANGED <<sessionRest, writerVars, eventVars, engineVars>>

\* Another connection's session ends the process, and this session with
\* it: while it is served, handleConnection or one of its handlers calls
\* log.Fatal (a read error but io.EOF, a request of a kind with no case);
\* during its shutdown or any time after it, its dispatchEvents receives an
\* event of an evaluation it launched and panics sending on the closed queue.
handleConnectionPeerFatal ==
    /\ proc = "running"
    /\ \E cause \in {"peerFatal", "peerPanic"} :
        /\ cause = "peerFatal" => peers > 0
        /\ cause = "peerPanic" => (peers > 0 \/ peersGone > 0)
        /\ proc' = (IF cause = "peerPanic" THEN "panic" ELSE "fatal")
        /\ fatalCause' = cause
    /\ connClosed' = TRUE
    /\ UNCHANGED <<mainVars, mpc, reqs, hpc, hresp, hidx, hcalls, sendWg, stopDebug, queueClosed,
                   replVars>>
    /\ UNCHANGED <<writerVars, eventVars, engineVars>>

\* The DAP server: the session of one connection in full, and the other
\* connections it serves in the same process.
ServerInit == Init /\ mode = "tcp"

ServerNext ==
    \/ dapServerAccept
    \/ handleConnectionPeerEOF
    \/ handleConnectionPeerFatal
    \/ \E r \in ClientRequests(NextSeq) \cup UnroutedMessages(NextSeq) : handleRequest(r)
    \/ ReadEOF
    \/ \E cause \in {"decode", "transport"} : ReadError(cause)
    \/ CloseStopDebug
    \/ SendWgWait
    \/ CloseSendQueue
    \/ ConnClose
    \/ \E h \in Handlers : onInitializeRequest(h)
    \/ \E h \in Handlers : onLaunchRequest(h)
    \/ \E h \in Handlers : onSetBreakpointsClear(h)
    \/ \E h \in Handlers : onSetBreakpointsSet(h)
    \/ \E h \in Handlers : onControlRequest(h)
    \/ \E h \in Handlers : onEvaluateRequest(h)
    \/ \E h \in Handlers : onStackTraceRequest(h)
    \/ \E h \in Handlers : onVariablesRequest(h)
    \/ \E h \in Handlers : onOkRequest(h)
    \/ \E h \in Handlers : onUnsupportedRequest(h)
    \/ \E h \in Handlers : onSourceRequest(h)
    \/ \E h \in Handlers : dispatchDefault(h)
    \/ \E h \in Handlers : SendResponse(h)
    \/ \E h \in Handlers : SendWgDone(h)
    \/ WriterWrite
    \/ WriterFlush
    \/ WriterExit
    \/ dispatchEventsReceive
    \/ dispatchEventsSend
    \/ dispatchEventsSendOnClosed
    \/ \E reason \in StopReasons : EngineStop(reason)
    \/ EngineExit

ServerSpec == ServerInit /\ [][ServerNext]_vars


\* ------------------------------------------------------------------ helpers of the properties

IsPrefix(s, t) == Len(s) <= Len(t) /\ SubSeq(t, 1, Len(s)) = s

\* The positions of queue q holding a message of handler h.
SentBy(q, h) == {i \in 1..Len(q) : q[i].by = h}

ResponsesBy(q, h) == {i \in SentBy(q, h) : q[i].type = "response"}

\* dispatchRequest has returned for handler h.
Returned(h) == hpc[h] \in {"wgDone", "done"}

\* The messages sendFromQueue has received and not yet flushed.
Pending == buf \o (IF wpc = "write" THEN <<wmsg>> ELSE <<>>)

\* ------------------------------------------------------------------ C1

C2_WriterOrder ==
    /\ IsPrefix(transport, enqueued)
    /\ Len(Pending) <= 1
    /\ ~connClosed => transport \o Pending = enqueued

\* A message is being flushed while two producers wait to send.
C2_Witness ==
    /\ wpc = "flush"
    /\ Len(transport) >= 1
    /\ epc = "send"
    /\ \E h \in Handlers : hpc[h] = "sendResp"

\* ------------------------------------------------------------------ C3

\* C3: when the shutdown sequence has ended (the transport is closed, or
\* dapStdin has returned), every message enqueued is on the transport.
C3_DrainedBeforeClose ==
    mpc = "done" => transport = enqueued

\* ------------------------------------------------------------------ C4

\* C4: when sendQueue is closed every handler has finished, the wait group
\* is at zero and the read loop has ended; the wait group counts the handlers
\* that have not finished.
C4_ClosedAfterHandlers ==
    /\ sendWg = Cardinality({h \in Handlers : hpc[h] # "done"})
    /\ queueClosed =>
        /\ sendWg = 0
        /\ \A h \in Handlers : hpc[h] = "done"
        /\ mpc \in {"closeConn", "done"}

C4_Witness ==
    /\ queueClosed
    /\ Len(reqs) >= 2
    /\ Len(enqueued) >= 2

\* ------------------------------------------------------------------ C5

\* C5: after end-of-stream the shutdown sequence can always go on: while it
\* has not ended and no evaluation is running, some step is possible.
C5_ShutdownNeverStuck ==
    (proc = "running" /\ mpc \in {"closeStop", "wait", "closeQueue", "closeConn"}
        /\ engRunning = 0) => ENABLED Next

\* ------------------------------------------------------------------ C6

\* C6: a transport error of the read is not fatal: the process never ends
\* through log.Fatal because of one.
C6_TransportErrorNotFatal ==
    ~(proc = "fatal" /\ fatalCause = "transport")

\* ------------------------------------------------------------------ C7

C7_Closed ==
    /\ fatalCause \in {"decode", "unrouted"} => (connClosed /\ proc = "fatal")
    /\ \A h \in Handlers :
        reqs[h].cmd \notin RoutedCommands => (hpc[h] = "start" /\ SentBy(enqueued, h) = {})

C7_Silent ==
    fatalCause \in {"decode", "unrouted"} => (transport' = transport /\ enqueued' = enqueued)

\* C7: a message that fails to decode, or that dispatchRequest has no case
\* for, is never answered and ends the process, which closes the connection;
\* from then on nothing is enqueued or written.
C7_UnknownMessageEndsSession ==
    []C7_Closed /\ [][C7_Silent]_vars

\* The session ended on an unknown message while a handler held a response.
C7_Witness ==
    /\ fatalCause \in {"decode", "unrouted"}
    /\ \E h \in Handlers : hpc[h] = "sendResp"

\* ------------------------------------------------------------------ C8

IsInitialized(m, h) == m.type = "event" /\ m.name = "initialized" /\ m.by = h

IsInitializeResponse(m, h) == m.type = "response" /\ m.name = "initialize" /\ m.by = h

\* C8: an initialize handler that has returned has enqueued the initialized
\* event and then its response, and an initialize response on the transport
\* has its handler's initialized event before it.
C8_InitializedBeforeResponse ==
    \A h \in Handlers :
        reqs[h].cmd = "initialize" =>
            /\ Returned(h) =>
                \E i, j \in 1..Len(enqueued) :
                    i < j /\ IsInitialized(enqueued[i], h)
                          /\ IsInitializeResponse(enqueued[j], h)
            /\ \A j \in 1..Len(transport) :
                IsInitializeResponse(transport[j], h) =>
                    \E i \in 1..(j - 1) : IsInitialized(transport[i], h)

\* Another producer's message lies between the event and the response.
C8_Witness ==
    \E h \in Handlers :
        \E i, k, j \in 1..Len(transport) :
            /\ i < k /\ k < j
            /\ IsInitialized(transport[i], h)
            /\ transport[k].by # h
            /\ IsInitializeResponse(transport[j], h)

\* ------------------------------------------------------------------ C9

LaunchFails(request) ==
    request.cmd = "launch" /\ (~request.argsOk \/ request.program \notin Files)

\* C9: a launch whose arguments do not decode or whose program cannot be
\* read makes no engine call and, once returned, has enqueued one message,
\* the error response with the reason ("Failed to open file: " and the open
\* error, or "Invalid launch arguments"); Launch is called by the other
\* launch requests only, and without a Launch no engine event is reported.
C9_FailedLaunch ==
    /\ \A h \in Handlers :
        LaunchFails(reqs[h]) =>
            /\ hcalls[h] = 0
            /\ Cardinality(SentBy(enqueued, h)) = (IF Returned(h) THEN 1 ELSE 0)
            /\ \A i \in SentBy(enqueued, h) :
                /\ enqueued[i].type = "response"
                /\ ~enqueued[i].success
                /\ enqueued[i].request_seq = reqs[h].seq
                /\ enqueued[i].format =
                        IF reqs[h].argsOk
                        THEN <<"Failed to open file: ">> \o OpenError(reqs[h].program)
                        ELSE <<"Invalid launch arguments">>
    /\ mode # "repl" =>
        launchCalls = Cardinality({h \in Handlers :
            reqs[h].cmd = "launch" /\ ~LaunchFails(reqs[h]) /\ hpc[h] # "start"})
    /\ (mode # "repl" /\ launchCalls = 0) =>
        /\ emitted = <<>>
        /\ \A i \in 1..Len(enqueued) : enqueued[i].name \notin {"stopped", "terminated"}

\* The error response of a launch of a missing file is on the transport.
C9_Witness ==
    \E h \in Handlers :
        /\ reqs[h].cmd = "launch" /\ reqs[h].argsOk /\ reqs[h].program \notin Files
        /\ hpc[h] = "done"
        /\ \E i \in 1..Len(transport) : transport[i].by = h

\* ------------------------------------------------------------------ C10

C10_Response ==
    \A h \in Handlers :
        reqs[h].cmd \in UnsupportedCommands =>
            /\ hcalls[h] = 0
            /\ Cardinality(SentBy(enqueued, h)) = (IF Returned(h) THEN 1 ELSE 0)
            /\ \A i \in SentBy(enqueued, h) :
                /\ enqueued[i].type = "response"
                /\ ~enqueued[i].success
                /\ enqueued[i].message = "unsupported"
                /\ enqueued[i].id = ErrorId
                /\ enqueued[i].request_seq = reqs[h].seq
                /\ enqueued[i].name = reqs[h].cmd

C10_Frame ==
    \A h \in Handlers :
        (reqs[h].cmd \in UnsupportedCommands /\ hpc'[h] # hpc[h]) =>
            UNCHANGED <<engineVars, current, proc, mpc, stopDebug, queueClosed, connClosed>>

\* C10: every unsupported command, source among them, is answered by one
\* response with success=false, the message "unsupported" and the fixed
\* error id; its handler makes no engine call, and no step of it changes the
\* engine, the breakpoints, the current location or the life of the session
\* (the process runs on and the read loop keeps its place).
C10_UnsupportedCommand ==
    []C10_Response /\ [][C10_Frame]_vars

\* ------------------------------------------------------------------ C11

\* The breakpoints of handler h's request that SetBreakpoint rejects.
Rejected(h) ==
    {i \in 1..Len(reqs[h].breakpoints) :
        ~SetBreakpointOk(reqs[h].path, reqs[h].breakpoints[i].line, -1)}

\* C11: a rejection by SetBreakpoint is reported as an error: the response
\* to a setBreakpoints request with a breakpoint the engine rejects has
\* success=false, and the command b whose breakpoint the engine rejects
\* shows the engine's error and no target.
C11_RejectionIsError ==
    /\ \A i \in 1..Len(enqueued) :
        LET m == enqueued[i] IN
        (m.type = "response" /\ m.name = "setBreakpoints" /\ Rejected(m.by) # {})
            => ~m.success
    /\ \A c \in setCalls :
        (c.who = 0 /\ ~SetBreakpointOk(c.file, c.line, c.column)) =>
            /\ \E j \in 1..Len(rout) :
                rout[j] = Shown(c.k, "error",
                                RenderTarget(SetBreakpointError(c.file, c.line, c.column)))
            /\ \A j \in 1..Len(rout) :
                rout[j].k = c.k => rout[j].what # "Adding breakpoint at "

\* ------------------------------------------------------------------ C12

\* C12: every call of SetBreakpoint carries the file, the line and the
\* column the client gave, the column -1 when the client gave none: for the
\* k-th breakpoint of a setBreakpoints request, and for the command
\* b file:line[:column].
C12_ForwardedVerbatim ==
    \A c \in setCalls :
        IF c.who = 0
        THEN LET binfo == rinputs[c.k][2] IN
             /\ c.file = binfo[1]
             /\ c.line = Atoi(binfo[2]).n
             /\ c.column = (IF Len(binfo) >= 3 THEN Atoi(binfo[3]).n ELSE -1)
        ELSE LET b == reqs[c.who].breakpoints[c.k] IN
             /\ c.file = reqs[c.who].path
             /\ c.line = b.line
             /\ c.column = (IF b.column = 0 THEN -1 ELSE b.column)

\* ------------------------------------------------------------------ C13

\* The response body and the active breakpoints one handling of a
\* setBreakpoints request leaves.
OnceBody(request) ==
    [i \in 1..Len(request.breakpoints) |->
        IF SetBreakpointOk(request.path, request.breakpoints[i].line, -1)
        THEN [line |-> request.breakpoints[i].line, verified |-> TRUE]
        ELSE [line |-> 0, verified |-> FALSE]]

OnceSet(request) ==
    {SetBreakpointTarget(request.path, request.breakpoints[i].line, -1) :
        i \in {j \in 1..Len(request.breakpoints) :
                SetBreakpointOk(request.path, request.breakpoints[j].line, -1)}}

SameSetBreakpoints(g, h) ==
    /\ reqs[g].cmd = "setBreakpoints" /\ reqs[h].cmd = "setBreakpoints"
    /\ reqs[g].path = reqs[h].path
    /\ reqs[g].breakpoints = reqs[h].breakpoints

\* The command b answers with.
BreakAnswers == {"Adding breakpoint at ", "error"}

C13_Replay ==
    /\ \A g, h \in Handlers :
        (/\ g < h
         /\ SameSetBreakpoints(g, h)
         /\ hpc[g] = "done" /\ hpc[h] = "done"
         /\ \A f \in Handlers :
                (reqs[f].cmd = "setBreakpoints" /\ reqs[f].path = reqs[g].path)
                    => SameSetBreakpoints(f, g)) =>
            /\ \A i \in ResponsesBy(enqueued, g) \cup ResponsesBy(enqueued, h) :
                /\ enqueued[i].success
                /\ enqueued[i].bps = OnceBody(reqs[g])
            /\ {b \in breakpoints : b[1] = reqs[g].path} = OnceSet(reqs[g])
    /\ \A i, j \in 1..Len(rout) :
        (/\ rout[i].what \in BreakAnswers /\ rout[j].what \in BreakAnswers
         /\ rinputs[rout[i].k] = rinputs[rout[j].k]) =>
            (rout[i].what = rout[j].what /\ rout[i].text = rout[j].text)

\* A step that reads "clear file" while the file has no breakpoint.
ClearsNothing ==
    /\ Len(rinputs') = Len(rinputs) + 1
    /\ Cmd(rinputs'[Len(rinputs')]) = "clear"
    /\ Len(rinputs'[Len(rinputs')]) >= 2
    /\ \A b \in breakpoints : b[1] # rinputs'[Len(rinputs')][2][1]

C13_ClearNoop ==
    ClearsNothing =>
        /\ breakpoints' = breakpoints
        /\ rout' = rout
        /\ proc' = "running"
        /\ rpc' = "prompt"

\* C13: setting and clearing breakpoints is idempotent.  Two setBreakpoints
\* requests with the same arguments, both handled, leave the response body
\* and the file's active breakpoints that one handling leaves; the command b
\* entered twice with the same location gives the same answer both times;
\* clearing a file that has no breakpoint changes nothing, shows nothing and
\* prompts again.
C13_Idempotent ==
    []C13_Replay /\ [][C13_ClearNoop]_vars

\* The same request, with a breakpoint the engine rejects, was handled twice,
\* and both responses are on the transport in the order of the requests.
C13_Witness ==
    /\ Len(reqs) >= 2
    /\ SameSetBreakpoints(1, 2)
    /\ Rejected(1) # {}
    /\ hpc[1] = "done" /\ hpc[2] = "done"
    /\ \E i, j \in 1..Len(transport) :
        i < j /\ transport[i].by = 1 /\ transport[j].by = 2

\* ------------------------------------------------------------------ C14

\* The messages dispatchEvents has enqueued, in order.
EventsSent(q) == SelectSeq(q, LAMBDA m : m.by = 0)

\* The number of events dispatchEvents has received.
EventsReceived == Len(emitted) - Len(events)

\* The message that corresponds to an engine event.
Corresponding(event) ==
    IF event.kind = "exit" THEN newEvent("terminated")
    ELSE [newEvent("stopped") EXCEPT
            !.reason = event.reason,
            !.text = IF event.reason = "exception" THEN event.error ELSE ""]

\* C14: dispatchEvents enqueues one message for every event it has received
\* (the last one may still wait for its send), the k-th message being the
\* stopped event with the reason (and, for an exception, the error text) of
\* the k-th engine event, or the terminated event for an Exit; no message is
\* sent twice and no nil message is enqueued.
C14_OneMessagePerEvent ==
    mode # "repl" =>
        /\ Len(EventsSent(enqueued)) = EventsReceived - (IF epc = "send" THEN 1 ELSE 0)
        /\ \A k \in 1..Len(EventsSent(enqueued)) :
            EventsSent(enqueued)[k] = Corresponding(emitted[k])
        /\ epc = "send" => e = Corresponding(emitted[EventsReceived])
        /\ \A i \in 1..Len(enqueued) : enqueued[i].type # "nil"

\* A stop on an exception and the exit after it were both reported.
C14_Witness ==
    /\ Len(EventsSent(transport)) = 2
    /\ EventsSent(transport)[1].reason = "exception"
    /\ EventsSent(transport)[1].text = "RUNTIME ERROR"
    /\ EventsSent(transport)[2].name = "terminated"

\* ------------------------------------------------------------------ C15

\* A step of dispatchEvents that receives a Stop event sets the location to
\* the event's node; a step that resumes the suspended evaluation (continue,
\* next, stepIn) leaves the location nil.
C15_Step ==
    /\ (mode # "repl" /\ Len(events') < Len(events) /\ Head(events).kind = "stop")
            => current' = Head(events).node
    /\ (mode # "repl" /\ engStopped' < engStopped) => current' = 0

\* C15: the session's current location is set on every Stop event and
\* cleared when continue, next or stepIn resumes the evaluation, so that it
\* is nil from a resume until the next Stop event.
C15_CurrentOnlyWhileStopped ==
    [][C15_Step]_vars

\* ------------------------------------------------------------------ C16

\* dispatchEvents has received an Exit event.
ExitReceived ==
    \E k \in 1..EventsReceived : emitted[k].kind = "exit"

\* Once dispatchEvents has received an Exit event it reports terminated and
\* the session reads no further request and receives no further event; Run
\* shows the output and the error of an Exit event and is done, and once done
\* reads no further line.
C16_Step ==
    /\ (mode # "repl" /\ ExitReceived) =>
            /\ reqs' = reqs
            /\ Len(events') >= Len(events)
    /\ (mode = "repl" /\ Len(events') < Len(events) /\ Head(events).kind = "exit") =>
            /\ rout' = rout \o ExitShown(Len(rinputs), Head(events))
            /\ rpc' = "done"
    /\ rpc = "done" => (rpc' = "done" /\ rinputs' = rinputs)

\* C16: an Exit event ends the session: the DAP session reports terminated
\* and then processes no further request or event; the terminal front end
\* shows the output and the error and leaves its event loop without another
\* prompt.
C16_ExitEndsSession ==
    [][C16_Step]_vars

\* ------------------------------------------------------------------ C17

\* C17: the stopped and terminated events on the transport are in the order
\* in which the engine emitted their events: the k-th of them is the message
\* of the k-th engine event, whatever the handlers enqueue in between.
C17_EventsFifo ==
    mode # "repl" =>
        /\ Len(EventsSent(transport)) <= Len(emitted)
        /\ \A k \in 1..Len(EventsSent(transport)) :
            EventsSent(transport)[k] = Corresponding(emitted[k])

\* Two different events are on the transport with a handler's response
\* between them, while another handler waits to send.
C17_Witness ==
    /\ Len(EventsSent(transport)) = 2
    /\ EventsSent(transport)[1] # EventsSent(transport)[2]
    /\ \E i, j, k \in 1..Len(transport) :
        /\ i < j /\ j < k
        /\ transport[i].by = 0 /\ transport[j].by # 0 /\ transport[k].by = 0
    /\ \E h \in Handlers : hpc[h] = "sendResp"

\* ------------------------------------------------------------------ helpers of the prompt loop's properties

\* The step reads a line at the prompt.
Reads == Len(rinputs') = Len(rinputs) + 1

\* The command of the line the step reads.
ReadCmd == Cmd(rinputs'[Len(rinputs')])

\* Run receives an event of the kind.
Receives(kind) == mode = "repl" /\ Len(events') < Len(events) /\ Head(events).kind = kind

ControlCmds == {"c", "s", "n", "next", "q"}

\* The state of the REPL loop (spec 4.4).
ReplState ==
    CASE rpc = "prompt" /\ rcur = 0 -> "AwaitingLaunch"
      [] rpc = "prompt" /\ rcur # 0 -> "Stopped"
      [] rpc \in {"call", "events"} /\ Cmd(rinputs[Len(rinputs)]) # "q" -> "Running"
      [] rpc \in {"call", "events"} /\ Cmd(rinputs[Len(rinputs)]) = "q" -> "Terminated"
      [] rpc = "done" -> "Terminated"
      [] OTHER -> "Off"

\* ------------------------------------------------------------------ C18

\* The engine call the state machine has for a command read in a state.
ExpectedCall(cmd, state) ==
    CASE cmd = "c" /\ state = "AwaitingLaunch" -> "Launch"
      [] cmd = "c" -> "Continue"
      [] cmd = "s" -> "Step"
      [] cmd \in {"n", "next"} -> "ContinueUntilAfter"
      [] cmd = "q" -> "Terminate"

C18_Calls ==
    \A k \in 1..Len(rinputs) :
        Cmd(rinputs[k]) \in ControlCmds =>
            Cardinality({i \in 1..Len(rcalls) : rcalls[i].k = k}) = 1

C18_Transition ==
    /\ (Reads /\ ReadCmd \in ControlCmds) =>
            /\ ReplState \in {"AwaitingLaunch", "Stopped"}
            /\ ReplState' = (IF ReadCmd = "q" THEN "Terminated" ELSE "Running")
            /\ rcalls' = Append(rcalls, [k |-> Len(rinputs'),
                                         op |-> ExpectedCall(ReadCmd, ReplState)])
    /\ Receives("stop") =>
            (ReplState = "Running" /\ ReplState' = "Stopped" /\ rcalls' = rcalls)
    /\ Receives("exit") => (ReplState' = "Terminated" /\ rcalls' = rcalls)
    /\ ReplState \in {"Running", "Terminated"} =>
            /\ rcalls' = rcalls
            /\ rinputs' = rinputs
            /\ ReplState' \in {ReplState, "Stopped", "Terminated"}
    /\ ReplState = "Terminated" => ReplState' = "Terminated"

\* C18: the prompt loop is the state machine of spec 4.4: c, s and n lead
\* from AwaitingLaunch or Stopped to Running, a Stop event from Running to
\* Stopped, q and an Exit event to Terminated, which is never left; each of
\* c, s, n, q makes one engine call, Launch (or Continue once an evaluation
\* has stopped), Step, ContinueUntilAfter, Terminate, and no call is made
\* while Running or Terminated.
C18_StateMachine ==
    []C18_Calls /\ [][C18_Transition]_vars

\* The run c, stop, s, stop, q, ended by the Exit event.
C18_Witness ==
    /\ rinputs = << << <<"c">> >>, << <<"s">> >>, << <<"q">> >> >>
    /\ rseen = 3
    /\ rcalls = <<[k |-> 1, op |-> "Launch"], [k |-> 2, op |-> "Step"],
                  [k |-> 3, op |-> "Terminate"]>>
    /\ ReplState = "Terminated"

\* ------------------------------------------------------------------ C19

C19_Step ==
    /\ (mode = "repl" /\ rpc \in {"call", "events"}) =>
            (rinputs' = rinputs /\ rcalls' = rcalls)
    /\ (mode = "repl" /\ rpc' = "prompt" /\ (rpc # "prompt" \/ Reads)) =>
            \/ Receives("stop")
            \/ Reads /\ ReadCmd \notin ControlCmds

\* C19: once n, s or c is read the loop reads no line and makes no engine
\* call until Run has received the next event; a prompt other than the first
\* follows the receipt of a Stop event or the reading of a command that is
\* not a control command.
C19_StrictAlternation ==
    [][C19_Step]_vars

\* c, a stop, a command that does not resume, s, and the prompt after the
\* second stop.
C19_Witness ==
    /\ Len(rinputs) = 3
    /\ Cmd(rinputs[1]) = "c"
    /\ Cmd(rinputs[2]) \notin ControlCmds
    /\ Cmd(rinputs[3]) = "s"
    /\ rseen = 2
    /\ rpc = "prompt"

\* ------------------------------------------------------------------ C20

\* C20: a line whose command does not resume or end the evaluation (b, l,
\* lb, p, trace, vars, last, clear, the empty line, an unknown command), with
\* or without arguments, is followed at once by a new prompt with the same
\* current location and error marker, and the loop lives on.
C20_NonTransitioning ==
    [][(Reads /\ ReadCmd \notin ControlCmds) =>
            (rpc' = "prompt" /\ rcur' = rcur /\ rerr' = rerr /\ proc' = "running")]_vars

\* ------------------------------------------------------------------ C21

\* The engine calls of the prompt loop before its i-th that are the op.
CallsBefore(i, op) == {j \in 1..(i - 1) : rcalls[j].op = op}

\* C21: the command c calls Launch when no evaluation has been started in
\* the session and Continue when one has; Launch is called by c only, and at
\* most once in a session.
C21_LaunchOnce ==
    mode = "repl" =>
        /\ launchCalls <= 1
        /\ launchCalls = Cardinality({i \in 1..Len(rcalls) : rcalls[i].op = "Launch"})
        /\ \A i \in 1..Len(rcalls) :
            /\ rcalls[i].op = "Launch" =>
                (Cmd(rinputs[rcalls[i].k]) = "c" /\ CallsBefore(i, "Launch") = {})
            /\ rcalls[i].op = "Continue" =>
                (Cmd(rinputs[rcalls[i].k]) = "c" /\ CallsBefore(i, "Launch") # {})
            /\ Cmd(rinputs[rcalls[i].k]) = "c" => rcalls[i].op \in {"Launch", "Continue"}

\* c launched the evaluation, and after a stop c continued it.
C21_Witness ==
    /\ Len(rcalls) >= 2
    /\ rcalls[1] = [k |-> 1, op |-> "Launch"]
    /\ rcalls[Len(rcalls)].op = "Continue"
    /\ rpc = "events"

\* ------------------------------------------------------------------ C22

\* The prompts at which q was entered.
Quits == {k \in 1..Len(rinputs) : Cmd(rinputs[k]) = "q"}

\* C22: after q, entered before the launch or while stopped, terminate has
\* been called once for it, no further prompt is issued, and Run has returned
\* or is about to, whether or not the engine reports an event afterwards.
C22_QuitEndsLoop ==
    (mode = "repl" /\ Quits # {}) =>
        /\ Quits = {Len(rinputs)}
        /\ rcalls[Len(rcalls)] = [k |-> Len(rinputs), op |-> "Terminate"]
        /\ Cardinality({i \in 1..Len(rcalls) : rcalls[i].op = "Terminate"}) = 1
        /\ rpc # "prompt"
        /\ (rpc = "done" \/ ENABLED RunExit)

\* ------------------------------------------------------------------ C23

\* The result carried by the Stop event the prompt loop is stopped at.
StoppedAtResult == IF rcur # 0 /\ rseen > 0 THEN emitted[rseen].last ELSE ""

\* The step reads the command last at a prompt of a stop that carried a
\* result, and shows that result.
C23_Step ==
    (mode = "repl" /\ Reads /\ ReadCmd = "last" /\ StoppedAtResult # "") =>
        rout' = Append(rout, Shown(Len(rinputs'), "Last evaluation: ", <<StoppedAtResult>>))

\* C23: while stopped at an event that carried a result, last shows that
\* result at every prompt, also after other non-transitioning commands.
C23_LastAtEveryPrompt == [][C23_Step]_vars

\* ------------------------------------------------------------------ C29

\* The prompt loop is away from the prompt on behalf of a step command: in
\* the engine call, or back in Run waiting on the event channel.
WaitsAfterStep ==
    /\ mode = "repl"
    /\ rpc \in {"call", "events"}
    /\ Cmd(rinputs[Len(rinputs)]) \in {"s", "n", "next"}

\* C29: the prompt loop waits for the engine after s or n only when an
\* evaluation has been launched, so it cannot hang before the launch.
C29_NoWaitBeforeLaunch == WaitsAfterStep => launchCalls > 0

\* ------------------------------------------------------------------ C24

\* The lines of case "trace" with the frames taken back to front.
TraceLinesReversed(tr) ==
    [i \in 1..Len(tr) |->
        LET frame == tr[Len(tr) + 1 - i] IN
        IF frame.file # ""
        THEN <<frame.name, frame.file, frame.line, frame.column>>
        ELSE <<frame.name>>]

\* The frames of a stackTrace response are frames of the engine's trace in
\* reverse order, and the total is their number.
ReversedTrace(m, trace) ==
    /\ m.total = Len(m.frames)
    /\ \A i \in 1..Len(m.frames) :
        /\ m.frames[i].id + 1 \in 1..Len(trace)
        /\ m.frames[i] = StackFrame(m.frames[i].id + 1, trace[m.frames[i].id + 1])
    /\ \A i, j \in 1..Len(m.frames) : i < j => m.frames[i].id > m.frames[j].id

\* A step that shows or answers a stack trace presents it innermost first.
C24_Step ==
    /\ (mode = "repl" /\ Reads /\ ReadCmd = "trace") =>
            rout' = Append(rout, Shown(Len(rinputs'), "trace",
                                       TraceLinesReversed(EngineStackTrace)))
    /\ \A h \in Handlers :
            (reqs[h].cmd = "stackTrace" /\ hpc[h] = "start" /\ hpc'[h] = "sendResp") =>
                ReversedTrace(hresp'[h], EngineStackTrace)

\* C24: the command trace shows the engine's frames in reverse order, and a
\* stackTrace response lists them in reverse order with their number as
\* the total.
C24_InnermostFirst == [][C24_Step]_vars

\* ------------------------------------------------------------------ C25

\* The requests that only read the engine's state.
ReadOnlyCommands == {"stackTrace", "variables", "scopes", "threads", "evaluate"}

\* A control handler waits in the engine for an evaluation to be suspended.
BlockedControl(h) ==
    h \in Handlers /\ reqs[h].cmd \in ControlCommands /\ hpc[h] = "start" /\ engStopped = 0

\* A step of the handler of a read-only request.
ReadOnlyStep(h) ==
    \/ onOkRequest(h)
    \/ onEvaluateRequest(h)
    \/ onStackTraceRequest(h)
    \/ onVariablesRequest(h)
    \/ SendResponse(h)
    \/ SendWgDone(h)

\* C25: the read loop can take the next request whatever the handlers before
\* it are doing, and while the output writer runs a read-only request that is
\* not yet answered can always move on, by a step of its handler or of the
\* writer, also when a control handler is blocked in the engine.
C25_ReadLoopNeverWaits ==
    /\ (proc = "running" /\ mpc = "read" /\ Len(reqs) < MaxReq) =>
            ENABLED (\E r \in ClientRequests(NextSeq) : handleRequest(r))
    /\ \A h \in Handlers :
            (/\ proc = "running"
             /\ reqs[h].cmd \in ReadOnlyCommands
             /\ hpc[h] # "done"
             /\ wpc # "exit") =>
                ENABLED (ReadOnlyStep(h) \/ WriterWrite \/ WriterFlush)

\* A read-only request read after a control request whose handler is still
\* blocked has its response on the transport.
C25_Witness ==
    \E h1, h2 \in Handlers :
        /\ h1 < h2
        /\ BlockedControl(h1)
        /\ reqs[h2].cmd \in ReadOnlyCommands
        /\ \E i \in ResponsesBy(transport, h2) : transport[i].request_seq = reqs[h2].seq

\* ------------------------------------------------------------------ C26

\* C26: no producer sends on sendQueue once it is closed: every handler has
\* returned by then, and dispatchEvents does not reach its send with the queue
\* closed, so no send on the closed queue ever takes place.
C26_NoSendAfterClose ==
    /\ queueClosed => \A h \in Handlers : hpc[h] = "done"
    /\ ~(queueClosed /\ epc = "send")
    /\ fatalCause # "sendOnClosed"

\* ------------------------------------------------------------------ C27

\* The handlers of the setBreakpoints requests for the file.
SetBreakpointsFor(file) ==
    {h \in Handlers : reqs[h].cmd = "setBreakpoints" /\ reqs[h].path = file}

\* C27: once every setBreakpoints handler for a file has returned, the file's
\* active breakpoints are the accepted breakpoints of one of the requests, and
\* each response has an entry for each breakpoint of its request, in order,
\* verified with its line for the accepted ones and for no other.
C27_ReplaceUnderConcurrency ==
    \A file \in Files :
        (/\ SetBreakpointsFor(file) # {}
         /\ \A h \in SetBreakpointsFor(file) : Returned(h)) =>
            /\ \E h \in SetBreakpointsFor(file) :
                    {b \in breakpoints : b[1] = file} = OnceSet(reqs[h])
            /\ \A h \in SetBreakpointsFor(file) :
                    \A i \in ResponsesBy(enqueued, h) : enqueued[i].bps = OnceBody(reqs[h])

\* ------------------------------------------------------------------ C28

\* The session's read fails, or its request is of a kind dispatchRequest has
\* no case for, while the server serves other connections.
SessionFails ==
    /\ peers > 0
    /\ proc = "running"
    /\ fatalCause = "none"
    /\ fatalCause' \in {"decode", "transport", "unrouted"}

\* C28: a decode error, an unknown request kind or a transport error on one
\* connection of the DAP server ends that session only: the sessions of the
\* other connections are still served.
C28_Step == SessionFails => (proc' = "running" /\ peers' = peers)

C28_SessionsIsolated == [][C28_Step]_vars

\* ------------------------------------------------------------------ C30

\* The command line is invalid: processArgs has not made a configuration main
\* goes on with.
Rejects(out) == out.status \notin {"Continue", "SuccessUsage", "Success"}

\* C30: for any command line processArgs returns one of the five statuses,
\* with an error for every command line it rejects, and Continue outside the
\* DAP modes only when exactly one file or code argument was given; it does
\* not panic.
C30_StatusForEveryArgs ==
    apc = "done" =>
        /\ aout.status # "panic"
        /\ aout.status \in Statuses
        /\ Rejects(aout) => aout.err # <<>>
        /\ (aout.status = "Continue" /\ ~aout.config.dap) => Len(aout.remainingArgs) = 1

====
